---- MODULE Spec2Model ----
(***************************************************************************)
(* Session / PTY multiplexing core of windowsCowork.                       *)
(*                                                                         *)
(* Main process (src/unnamed/part_013): the cliProcesses map of PtyEntry   *)
(* values, the cli:* IPC handlers and the onData / onExit callbacks.       *)
(* Renderer: the Redux slices (session, chat, task, file, api) and the     *)
(* SessionPanel / ChatPanel / TerminalView handlers that drive them.       *)
(***************************************************************************)
EXTENDS Integers, Sequences, FiniteSets, TLC

VARIABLES
    cliProcesses,   \* main: Map<sessionId, PtyEntry>, as sessionId -> pid (NoPid: absent)
    procs,          \* main: every process spawned so far, indexed by pid
    ipcReply,       \* the last cli:* call (op, sid) and the value it returned
    mountSaw,       \* terminal mounts that got exists:false and will call connect
    chat,           \* main: apiConfig, conversationHistory, chat:send calls, what they sent
    store,          \* renderer: the Redux store and the localStorage blobs
    pending,        \* renderer: handlers suspended at an await
    term,           \* renderer: the mounted TerminalView effect, if any
    edits,          \* user edits made so far (bounded by MaxEdits)
    trip            \* observer of a switch(B); switch(A) round trip

ptyVars == <<cliProcesses, procs, ipcReply, mountSaw, chat>>

rendererVars == <<store, pending, term, edits, trip>>

vars == <<cliProcesses, procs, ipcReply, mountSaw, chat, store, pending, term, edits, trip>>

----------------------------------------------------------------------------
(* Bounds *)

MaxSpawn == 3        \* processes spawned in one run
MaxEmit == 4         \* characters one process emits
MaxChunk == 2        \* characters in one onData callback
MaxMounts == 1       \* terminal mounts between exists and connect, per session
MaxSessions == 2     \* sessions created in one run
MaxMsgId == 2        \* largest message id the live chat hands out
MaxTaskId == 1       \* largest task id the live task list hands out
MaxEdits == 3        \* user edits (chat, task, file, api, restart) in one run

\* The scrollback cap. The source sets 100_000 (part_013:512); the model keeps
\* the same slicing rule on a cap small enough to be exceeded.
MAX_SCROLLBACK == 3

----------------------------------------------------------------------------
(* Values *)

\* Session ids are 1, 2, ..: the k-th session created gets id k (the source
\* draws Date.now() plus four random characters: never the same id twice).
\* Null is the null activeId; as a registry key it is the 'default' fallback.
Null == 0
PtyKeys == 0..MaxSessions
PtySessionIds == {1, 2}
NoPid == 0

\* CLI_COMMANDS: the provider kinds cli:connect knows.
CLI_COMMANDS == {"claude-code", "codex"}

\* Provider kinds the callers of the registry hand to cli:connect
\* ("anthropic" has no command).
ConnectProviders == {"claude-code", "anthropic"}

NoReply == [seq |-> FALSE, op |-> "none", sid |-> 0, provider |-> "", ok |-> TRUE,
            existing |-> FALSE, exists |-> FALSE, error |-> "", data |-> <<>>,
            uncaught |-> FALSE]

\* The record of one more call: seq flips at every call
Called(op, sid) == [NoReply EXCEPT !.seq = ~ipcReply.seq, !.op = op, !.sid = sid]

\* The chat side of the main process at startup: apiConfig, no api:setConfig
\* call yet, conversationHistory = [], no chat:send call yet, nothing sent
NoChat ==
    [provider |-> "anthropic", model |-> "claude-sonnet-4-20250514", apiKey |-> "",
     probes |-> <<>>, history |-> <<>>, turns |-> <<>>, sent |-> <<>>]

Min(a, b) == IF a < b THEN a ELSE b

----------------------------------------------------------------------------
(* String.prototype.slice(-n): the last n characters (the whole string when
   it is shorter). *)
SliceHead(s, n) == SubSeq(s, 1, Min(n, Len(s)))

SliceTail(s, n) == SubSeq(s, Len(s) - Min(n, Len(s)) + 1, Len(s))

\* proc.onData body: entry.scrollback += data, then cut to the cap.
AppendScrollback(sb, data) ==
    IF Len(sb \o data) > MAX_SCROLLBACK
    THEN SliceTail(sb \o data, MAX_SCROLLBACK)
    ELSE sb \o data

\* The characters a process emits are tagged with their offset in its output
\* stream: the chunk that follows n emitted characters is <<n+1, .., n+k>>.
Chunk(from, k) == [i \in 1..k |-> from + i]

Running(pid) == procs[pid].status = "running"

HasEntry(sid) == cliProcesses[sid] # NoPid

----------------------------------------------------------------------------
(* Main process: cli:* handlers and PTY callbacks *)

\* proc.onExit without its cliProcesses.delete
ExitKeeps(pid, sid) == cliProcesses

\* cliProcesses.delete(sessionId) of proc.onExit.
ExitDelete(pid, sid) == [cliProcesses EXCEPT ![sid] = NoPid]

\* The branch of cli:connect taken when an entry exists.
ConnectSpawnsAnyway(sid) == FALSE

ConnectReattaches(sid) == HasEntry(sid)

\* const mapping = CLI_COMMANDS[provider]; if (!mapping) ...
AnyProviderKnown(provider) == TRUE

KnownProvider(provider) == provider \in CLI_COMMANDS

\* ipcMain.handle('cli:connect'): spawnOk is whether pty.spawn returns or throws.
CliConnect(sid, provider, spawnOk) ==
    LET called == [Called("connect", sid) EXCEPT !.provider = provider] IN
    /\ IF ConnectReattaches(sid)
       THEN /\ ipcReply' = [called EXCEPT !.existing = TRUE]
            /\ UNCHANGED <<cliProcesses, procs>>
       ELSE IF ~KnownProvider(provider)
       THEN /\ ipcReply' = [called EXCEPT !.ok = FALSE, !.error = "unknown"]
            /\ UNCHANGED <<cliProcesses, procs>>
       ELSE IF ~spawnOk
       THEN /\ ipcReply' = [called EXCEPT !.ok = FALSE, !.error = "spawn"]
            /\ UNCHANGED <<cliProcesses, procs>>
       ELSE /\ Len(procs) < MaxSpawn
            /\ procs' = Append(procs, [sid |-> sid, provider |-> provider,
                                       status |-> "running",
                                       scrollback |-> <<>>, emitted |-> <<>>,
                                       input |-> <<>>, size |-> <<80, 24>>,
                  sent |-> <<>>])
            /\ cliProcesses' = [cliProcesses EXCEPT ![sid] = Len(procs) + 1]
            /\ ipcReply' = called

\* cli:disconnect with every entry dropped
DisconnectDropsAll(sid) ==
    /\ procs' = [pid \in 1..Len(procs) |->
                    IF HasEntry(sid) /\ pid = cliProcesses[sid]
                    THEN [procs[pid] EXCEPT !.status = "killed"] ELSE procs[pid]]
    /\ cliProcesses' = [k \in PtyKeys |-> NoPid]
    /\ ipcReply' = Called("disconnect", sid)

\* ipcMain.handle('cli:disconnect'): proc.kill() and delete; the killed
\* process reports its exit later, through its onExit callback.
CliDisconnect(sid) ==
    /\ IF HasEntry(sid)
       THEN /\ procs' = [procs EXCEPT ![cliProcesses[sid]].status = "killed"]
            /\ cliProcesses' = [cliProcesses EXCEPT ![sid] = NoPid]
       ELSE UNCHANGED <<cliProcesses, procs>>
    /\ ipcReply' = Called("disconnect", sid)

\* ipcMain.handle('cli:exists')
CliExists(sid) ==
    /\ ipcReply' = [Called("exists", sid) EXCEPT !.exists = HasEntry(sid)]
    /\ UNCHANGED <<cliProcesses, procs>>

\* ipcMain.handle('cli:getScrollback')
CliGetScrollback(sid) ==
    /\ ipcReply' = IF HasEntry(sid)
                   THEN [Called("getScrollback", sid) EXCEPT
                             !.data = procs[cliProcesses[sid]].scrollback]
                   ELSE [Called("getScrollback", sid) EXCEPT !.ok = FALSE]
    /\ UNCHANGED <<cliProcesses, procs>>

\* win.webContents.send('cli:output', sessionId, data) and
\* win.webContents.send('cli:exit', sessionId, exitCode): what a callback of a
\* process puts on the channel to the window.  sent keeps it per process in
\* the order of the calls, the payload of an output event character by
\* character, each with the channel and the session id of its event;
\* sessionId is the one cli:connect closed over.
CliOutput(sid, data) ==
    [i \in 1..Len(data) |-> [channel |-> "cli:output", sid |-> sid, data |-> data[i]]]

CliExit(sid) == <<[channel |-> "cli:exit", sid |-> sid, data |-> 0]>>

\* proc.onData sending to the window only for the session in front
DataOnlyInFront(pid, k) ==
    /\ procs[pid].status \in {"running", "killed"}
    /\ Len(procs[pid].emitted) + k <= MaxEmit
    /\ LET data == Chunk(Len(procs[pid].emitted), k) IN
       procs' = [procs EXCEPT
                   ![pid].emitted = @ \o data,
                   ![pid].scrollback = AppendScrollback(@, data),
                   ![pid].sent = IF procs[pid].sid = store.activeId
                                 THEN @ \o CliOutput(procs[pid].sid, data)
                                 ELSE @]
    /\ UNCHANGED <<cliProcesses, ipcReply>>

\* proc.onData: the callback appends to the entry it closed over, whether or
\* not that entry is still in the map.
ProcData(pid, k) ==
    /\ procs[pid].status \in {"running", "killed"}
    /\ Len(procs[pid].emitted) + k <= MaxEmit
    /\ LET data == Chunk(Len(procs[pid].emitted), k) IN
       procs' = [procs EXCEPT
                   ![pid].emitted = @ \o data,
                   ![pid].scrollback = AppendScrollback(@, data),
                   ![pid].sent = @ \o CliOutput(procs[pid].sid, data)]
    /\ UNCHANGED <<cliProcesses, ipcReply>>

\* proc.onExit: fires when the process ends, on its own or after kill().
ProcExit(pid) ==
    /\ procs[pid].status \in {"running", "killed"}
    /\ procs' = [procs EXCEPT ![pid].status = "exited",
                              ![pid].sent = @ \o CliExit(procs[pid].sid)]
    /\ cliProcesses' = ExitDelete(pid, procs[pid].sid)
    /\ UNCHANGED ipcReply

----------------------------------------------------------------------------
(* Renderer: values of the Redux store *)

Provider == {"anthropic", "openai", "gemini", "claude-code", "codex"}

\* apiSlice.ts CLI_PROVIDERS / isCliProvider
isCliProvider(p) == p \in {"claude-code", "codex"}

\* apiSlice.ts MODELS
MODELS(p) ==
    CASE p = "anthropic" -> <<"claude-sonnet-4-20250514", "claude-opus-4-20250514",
                              "claude-haiku-4-20250514">>
      [] p = "openai" -> <<"gpt-4o", "gpt-4o-mini">>
      [] p = "gemini" -> <<"gemini-2.5-pro", "gemini-2.5-flash">>
      [] OTHER -> <<>>

\* The welcome placeholder of chatSlice (id 0).
Welcome == [id |-> 0, type |-> "system", text |-> "welcome"]

Paths == {"", "/p"}

EmptyFn == [x \in {} |-> 0]

\* localStorage.getItem of a key that was never written
Absent == [present |-> FALSE]

\* The key '' handleDelete hands to restoreSessionConnected
EmptyKey == -1

\* chatSlice.ts initialState
chatInitialState == [messages |-> <<Welcome>>, nextId |-> 1, isStreaming |-> FALSE]

\* sessionSlice.ts loadState: the parsed blob when it has a sessions array.
sessionLoadState(raw) ==
    IF raw.present /\ raw.sessionsIsArray
    THEN [sessions |-> raw.sessions, activeId |-> raw.activeId]
    ELSE [sessions |-> <<>>, activeId |-> Null]

\* JSON.stringify(state) of the session slice
sessionBlob(st) ==
    [present |-> TRUE, sessionsIsArray |-> TRUE,
     sessions |-> st.sessions, activeId |-> st.activeId]

\* apiSlice.ts loadState
apiDefaultState ==
    [provider |-> "anthropic", model |-> MODELS("anthropic")[1],
     apiKeys |-> [p \in Provider |-> ""], connected |-> FALSE,
     connectedSessions |-> EmptyFn]

\* !!parsed.connected, on the JSON value of the field
Truthy(v) == v \in {"true", "1"}

apiLoadKeepsConnected(raw) == Truthy(raw.connected)

apiLoadConnected(raw) ==
    IF isCliProvider(raw.provider) THEN FALSE ELSE Truthy(raw.connected)

apiLoadState(raw) ==
    IF raw.present /\ raw.provider # "" /\ raw.hasApiKeys
    THEN [provider |-> raw.provider, model |-> raw.model, apiKeys |-> raw.apiKeys,
          connected |-> apiLoadConnected(raw), connectedSessions |-> EmptyFn]
    ELSE apiDefaultState

\* JSON.stringify(state) of the api slice
apiBlob(api) ==
    [present |-> TRUE, provider |-> api.provider, model |-> api.model,
     hasApiKeys |-> TRUE,
     apiKeys |-> api.apiKeys,
     connected |-> IF api.connected THEN "true" ELSE "false",
     connectedSessions |-> api.connectedSessions]

\* ChatPanel: streamTextRef = useRef(''), streamMsgIdRef = useRef(-1)
NoRefs == [streamText |-> "", streamMsgId |-> -1]

\* The store right after the first launch (nothing in localStorage).
InitialStore ==
    [sessions |-> <<>>, activeId |-> Null,
     chat |-> chatInitialState,
     task |-> [tasks |-> <<>>, counter |-> 0],
     file |-> [currentPath |-> ""],
     api |-> apiDefaultState,
     created |-> 0,
     refs |-> NoRefs,
     ls |-> [sessions |-> Absent, api |-> Absent, tasks |-> Absent]]

----------------------------------------------------------------------------
(* Renderer: reducers, as functions from store to store *)

\* sessionSlice.ts saveState
sessionSaveState(st) == [st EXCEPT !.ls.sessions = sessionBlob(st)]

\* apiSlice.ts saveState
apiSaveState(st) == [st EXCEPT !.ls.api = apiBlob(st.api)]

\* sessions.find((s) => s.id === id): the index, 0 when there is none
FindIndex(sessions, id) ==
    IF \E i \in 1..Len(sessions) : sessions[i].id = id
    THEN CHOOSE i \in 1..Len(sessions) :
            /\ sessions[i].id = id
            /\ \A j \in 1..(i - 1) : sessions[j].id # id
    ELSE 0

\* sessions.filter((s) => s.id !== id)
FilterOut(sessions, id) == SelectSeq(sessions, LAMBDA s : s.id # id)

\* sessionSlice.ts addSession
addSession(st, name, path) ==
    LET id == st.created + 1
        session == [id |-> id, name |-> name, path |-> path,
                    messages |-> <<>>, tasks |-> <<>>, taskCounter |-> 0]
    IN sessionSaveState([st EXCEPT !.sessions = Append(@, session),
                                   !.activeId = id,
                                   !.created = id])

\* The activeId deleteSession leaves.
NextActiveKeep(st, id, remaining) == st.activeId

NextActive(st, id, remaining) ==
    IF st.activeId = id
    THEN IF Len(remaining) > 0 THEN remaining[1].id ELSE Null
    ELSE st.activeId

\* sessionSlice.ts deleteSession
deleteSession(st, id) ==
    LET remaining == FilterOut(st.sessions, id) IN
    sessionSaveState([st EXCEPT !.sessions = remaining,
                                !.activeId = NextActive(st, id, remaining)])

\* sessionSlice.ts switchSession
switchSession(st, id) ==
    sessionSaveState(IF FindIndex(st.sessions, id) # 0
                     THEN [st EXCEPT !.activeId = id]
                     ELSE st)

\* renameSession without its saveState
RenameWithoutSave(st, id, name) ==
    LET i == FindIndex(st.sessions, id) IN
    IF i # 0 THEN [st EXCEPT !.sessions[i].name = name] ELSE st

\* sessionSlice.ts renameSession
renameSession(st, id, name) ==
    LET i == FindIndex(st.sessions, id) IN
    sessionSaveState(IF i # 0 THEN [st EXCEPT !.sessions[i].name = name] ELSE st)

\* sessionSlice.ts updateSessionPath
updateSessionPath(st, id, path) ==
    LET i == FindIndex(st.sessions, id) IN
    sessionSaveState(IF i # 0 THEN [st EXCEPT !.sessions[i].path = path] ELSE st)

\* What saveCurrentState writes into the active session.
SnapshotDropsMessages(session, snap) ==
    [session EXCEPT !.tasks = snap.tasks,
                    !.taskCounter = snap.taskCounter,
                    !.path = snap.currentPath]

ApplySnapshot(session, snap) ==
    [session EXCEPT !.messages = snap.messages,
                    !.tasks = snap.tasks,
                    !.taskCounter = snap.taskCounter,
                    !.path = snap.currentPath]

\* sessionSlice.ts saveCurrentState
saveCurrentState(st, snap) ==
    IF st.activeId = Null THEN st
    ELSE LET i == FindIndex(st.sessions, st.activeId) IN
         sessionSaveState(IF i # 0
                          THEN [st EXCEPT !.sessions[i] = ApplySnapshot(@, snap)]
                          ELSE st)

\* chatSlice.ts restoreMessages
restoreMessages(st, messages, nextId) ==
    [st EXCEPT !.chat = [messages |-> IF Len(messages) > 0 THEN messages
                                      ELSE <<Welcome>>,
                         nextId |-> nextId,
                         isStreaming |-> FALSE]]

\* chatSlice.ts addMessage
addMessage(st, type, text) ==
    [st EXCEPT !.chat =
        [messages |-> Append(SelectSeq(st.chat.messages, LAMBDA m : m.id # 0),
                             [id |-> st.chat.nextId, type |-> type, text |-> text]),
         nextId |-> st.chat.nextId + 1,
         isStreaming |-> st.chat.isStreaming]]

\* chatSlice.ts addMessageWithId
addMessageWithId(st, msg) ==
    [st EXCEPT !.chat.messages = Append(SelectSeq(@, LAMBDA m : m.id # 0), msg),
               !.chat.nextId = IF msg.id >= @ THEN msg.id + 1 ELSE @]

\* chatSlice.ts updateMessageText: the first message with that id, if any
updateMessageText(st, id, text) ==
    LET ms == st.chat.messages
        hits == {i \in 1..Len(ms) : ms[i].id = id}
    IN IF hits = {} THEN st
       ELSE LET i == CHOOSE i \in hits : \A j \in hits : i <= j
            IN [st EXCEPT !.chat.messages[i].text = text]

\* chatSlice.ts removeEmptyMessage
removeEmptyMessage(st, id) ==
    [st EXCEPT !.chat.messages = SelectSeq(@, LAMBDA m : ~(m.id = id /\ m.text = ""))]

\* chatSlice.ts setStreaming
setStreaming(st, b) == [st EXCEPT !.chat.isStreaming = b]

\* chatSlice.ts removeWelcome
removeWelcome(st) ==
    [st EXCEPT !.chat.messages = SelectSeq(@, LAMBDA m : m.id # 0)]

\* taskSlice saveToStorage
taskSaveToStorage(st) ==
    [st EXCEPT !.ls.tasks = [present |-> TRUE, tasks |-> st.task.tasks,
                             counter |-> st.task.counter]]

\* taskSlice loadFromStorage
taskLoadFromStorage(raw) ==
    IF raw.present THEN [tasks |-> raw.tasks, counter |-> raw.counter]
    ELSE [tasks |-> <<>>, counter |-> 0]

\* taskSlice restoreTasks
restoreTasks(st, tasks, counter) ==
    taskSaveToStorage([st EXCEPT !.task = [tasks |-> tasks, counter |-> counter]])

\* taskSlice addTask
addTask(st, text) ==
    taskSaveToStorage([st EXCEPT !.task =
        [tasks |-> Append(st.task.tasks,
                          [id |-> st.task.counter + 1, text |-> text, done |-> FALSE]),
         counter |-> st.task.counter + 1]])

\* taskSlice toggleTask
toggleTask(st, id) ==
    taskSaveToStorage([st EXCEPT !.task.tasks =
        [i \in 1..Len(@) |-> IF @[i].id = id THEN [@[i] EXCEPT !.done = ~@] ELSE @[i]]])

\* fileSlice.ts setDirectory
setDirectory(st, path) == [st EXCEPT !.file.currentPath = path]

\* apiSlice.ts setProvider
setProvider(st, p) ==
    apiSaveState([st EXCEPT !.api.provider = p,
                            !.api.model = IF Len(MODELS(p)) > 0 THEN MODELS(p)[1] ELSE ""])

\* apiSlice.ts setModel
setModel(st, m) == apiSaveState([st EXCEPT !.api.model = m])

\* apiSlice.ts setApiKey
setApiKey(st, p, key) == apiSaveState([st EXCEPT !.api.apiKeys[p] = key])

\* apiSlice.ts setConnected
setConnected(st, b) == apiSaveState([st EXCEPT !.api.connected = b])

\* apiSlice.ts disconnect
disconnect(st) == apiSaveState([st EXCEPT !.api.connected = FALSE])

\* saveSessionConnected keeping the snapshot of sid alone
SaveDropsOthers(st, sid) ==
    [st EXCEPT !.api.connectedSessions =
        [x \in {sid} |-> [connected |-> st.api.connected, provider |-> st.api.provider,
                          model |-> st.api.model]]]

\* apiSlice.ts saveSessionConnected
saveSessionConnected(st, sid) ==
    LET cs == st.api.connectedSessions
        snap == [connected |-> st.api.connected, provider |-> st.api.provider,
                 model |-> st.api.model]
    IN [st EXCEPT !.api.connectedSessions =
            [x \in DOMAIN cs \cup {sid} |-> IF x = sid THEN snap ELSE cs[x]]]

\* restoreSessionConnected without its else branch
RestoreKeepsConnected(st, sid) ==
    LET cs == st.api.connectedSessions IN
    apiSaveState(IF sid \in DOMAIN cs
                 THEN [st EXCEPT !.api.connected = cs[sid].connected,
                                 !.api.provider = cs[sid].provider,
                                 !.api.model = cs[sid].model]
                 ELSE st)

\* apiSlice.ts restoreSessionConnected
restoreSessionConnected(st, sid) ==
    LET cs == st.api.connectedSessions IN
    apiSaveState(IF sid \in DOMAIN cs
                 THEN [st EXCEPT !.api.connected = cs[sid].connected,
                                 !.api.provider = cs[sid].provider,
                                 !.api.model = cs[sid].model]
                 ELSE [st EXCEPT !.api.connected = FALSE])

\* apiSlice.ts removeSessionConnected
removeSessionConnected(st, sid) ==
    LET cs == st.api.connectedSessions IN
    [st EXCEPT !.api.connectedSessions = [x \in DOMAIN cs \ {sid} |-> cs[x]]]

----------------------------------------------------------------------------
(* Renderer: SessionPanel handlers *)

\* sends: the sendMessage calls awaiting window.api.chat.send.
\* ipc: the window.api calls sent and not yet answered, oldest first (used
\* where the order of the calls matters)
NoPending == [switches |-> {}, deletes |-> {}, dirs |-> {}, ipc |-> <<>>,
              sends |-> {}]

NoTerm == [mounted |-> FALSE]

NoTrip == [phase |-> "idle"]

RECURSIVE TrimLeft(_)
TrimLeft(s) == IF s # <<>> /\ Head(s) = " " THEN TrimLeft(Tail(s)) ELSE s

RECURSIVE TrimRight(_)
TrimRight(s) ==
    IF s # <<>> /\ s[Len(s)] = " " THEN TrimRight(SubSeq(s, 1, Len(s) - 1)) ELSE s

\* String.prototype.trim, on a name held as a sequence of characters
Trim(s) == TrimRight(TrimLeft(s))

NameInputs == {<<" ">>, <<"n">>, <<" ", "n", " ">>}

RECURSIVE MaxId(_)
MaxId(messages) ==
    IF Len(messages) = 1 THEN messages[1].id
    ELSE LET m == MaxId(Tail(messages)) IN
         IF messages[1].id > m THEN messages[1].id ELSE m

\* nextId: messages.length > 0 ? Math.max(...ids) + 1 : 1
NextIdByCount(st, messages) == Len(messages) + 1

NextIdFor(st, messages) == IF Len(messages) > 0 THEN MaxId(messages) + 1 ELSE 1

\* currentSession?.path || file.currentPath
PathToSave(st) ==
    LET i == FindIndex(st.sessions, st.activeId) IN
    IF i # 0 /\ st.sessions[i].path # "" THEN st.sessions[i].path
    ELSE st.file.currentPath

\* The snapshot handleAddSession and handleSwitch hand to saveCurrentState.
Snapshot(st) ==
    [messages |-> st.chat.messages, nextId |-> st.chat.nextId,
     tasks |-> st.task.tasks, taskCounter |-> st.task.counter,
     currentPath |-> PathToSave(st)]

\* Step 1 of handleAddSession / handleSwitch: save the outgoing session.
SaveOutgoing(st) ==
    IF st.activeId # Null
    THEN saveSessionConnected(saveCurrentState(st, Snapshot(st)), st.activeId)
    ELSE st

\* restoreMessages + restoreTasks of a session record
RestoreFrom(st, session) ==
    restoreTasks(restoreMessages(st, session.messages, NextIdFor(st, session.messages)),
                 session.tasks, session.taskCounter)

\* restoreMessages([], 1) + restoreTasks([], 0)
RestoreEmpty(st) == restoreTasks(restoreMessages(st, <<>>, 1), <<>>, 0)

\* handleAddSession without the check of the trimmed name
AddUnchecked(st, nameInput) ==
    disconnect(RestoreEmpty(addSession(SaveOutgoing(st), Trim(nameInput),
                                       st.file.currentPath)))

\* SessionPanel.handleAddSession
handleAddSession(st, nameInput) ==
    LET name == Trim(nameInput) IN
    IF name = <<>> THEN st
    ELSE disconnect(RestoreEmpty(addSession(SaveOutgoing(st), name,
                                            st.file.currentPath)))

\* SessionPanel.handleSwitch, up to its await (or its end when it never awaits).
\* sessions, activeId, chat, task and file are the values of the render the
\* click came from: st.
SwitchSuspends(st, id) ==
    LET i == FindIndex(st.sessions, id) IN
    id # st.activeId /\ i # 0 /\ st.sessions[i].path # ""

handleSwitchSync(st, id) ==
    IF id = st.activeId THEN st
    ELSE LET st2 == switchSession(SaveOutgoing(st), id)
             i == FindIndex(st.sessions, id)
         IN IF i = 0 THEN st2
            ELSE LET st3 == RestoreFrom(st2, st.sessions[i]) IN
                 IF st.sessions[i].path # "" THEN st3
                 ELSE restoreSessionConnected(st3, id)

\* handleSwitch giving up when the listing fails
ResumeOnlyIfListed(st, h, ok) ==
    IF ok THEN restoreSessionConnected(setDirectory(st, h.path), h.id) ELSE st

\* handleSwitch after the await of readDir: steps 4 (result) and 5
handleSwitchResume(st, h, ok) ==
    restoreSessionConnected(IF ok THEN setDirectory(st, h.path) ELSE st, h.id)

\* The restore branch of handleDelete (wasActive).
DeleteRestore(st, h) ==
    LET remaining == FilterOut(h.sessions, h.id) IN
    IF Len(remaining) > 0
    THEN restoreSessionConnected(RestoreFrom(st, remaining[1]), remaining[1].id)
    ELSE restoreSessionConnected(RestoreEmpty(st), EmptyKey)

DeleteLists(h) ==
    LET remaining == FilterOut(h.sessions, h.id) IN
    IF h.id = h.activeId /\ Len(remaining) > 0 /\ remaining[1].path # ""
    THEN {remaining[1].path} ELSE {}

\* SessionPanel.handleDelete after the await of cli.disconnect. h holds the id
\* and the sessions / activeId of the render the click came from.
handleDeleteResume(st, h) ==
    LET st2 == deleteSession(removeSessionConnected(st, h.id), h.id) IN
    IF h.id = h.activeId THEN DeleteRestore(st2, h) ELSE st2

SessionIdsOf(st) == {st.sessions[i].id : i \in 1..Len(st.sessions)}

Idle == pending = NoPending

----------------------------------------------------------------------------
(* The PTY registry under arbitrary callers *)

\* TerminalView mount, first await: exists; a mount that is told "false"
\* goes on to call connect (TerminalView.tsx:150-163).
MountExists(sid) ==
    /\ CliExists(sid)
    /\ IF HasEntry(sid)
       THEN UNCHANGED mountSaw
       ELSE /\ mountSaw[sid] < MaxMounts
            /\ mountSaw' = [mountSaw EXCEPT ![sid] = @ + 1]

MountConnect(sid, provider, spawnOk) ==
    /\ mountSaw[sid] > 0
    /\ mountSaw' = [mountSaw EXCEPT ![sid] = @ - 1]
    /\ CliConnect(sid, provider, spawnOk)

PtyConnect ==
    \E sid \in PtySessionIds, p \in ConnectProviders, ok \in BOOLEAN :
        CliConnect(sid, p, ok) /\ UNCHANGED <<mountSaw, chat, rendererVars>>

PtyDisconnect ==
    \E sid \in PtySessionIds : CliDisconnect(sid) /\ UNCHANGED <<mountSaw, chat, rendererVars>>

PtyMountExists ==
    \E sid \in PtySessionIds : MountExists(sid) /\ UNCHANGED <<chat, rendererVars>>

PtyMountConnect ==
    \E sid \in PtySessionIds, p \in ConnectProviders, ok \in BOOLEAN :
        MountConnect(sid, p, ok) /\ UNCHANGED <<chat, rendererVars>>

PtyData ==
    \E pid \in 1..Len(procs), k \in 1..MaxChunk :
        ProcData(pid, k) /\ UNCHANGED <<mountSaw, chat, rendererVars>>

PtyExit ==
    \E pid \in 1..Len(procs) : ProcExit(pid) /\ UNCHANGED <<mountSaw, chat, rendererVars>>

MainInit ==
    /\ cliProcesses = [sid \in PtyKeys |-> NoPid]
    /\ procs = <<>>
    /\ ipcReply = NoReply
    /\ mountSaw = [sid \in PtyKeys |-> 0]
    /\ chat = NoChat

PtyInit ==
    /\ MainInit
    /\ store = InitialStore
    /\ pending = NoPending
    /\ term = NoTerm
    /\ edits = 0
    /\ trip = NoTrip

PtyNext ==
    \/ PtyConnect
    \/ PtyDisconnect
    \/ PtyMountExists
    \/ PtyMountConnect
    \/ PtyExit

SpecPty == PtyInit /\ [][PtyNext]_vars

----------------------------------------------------------------------------
(* The scrollback of the processes of one session *)

ScrollConnect == CliConnect(1, "claude-code", TRUE) /\ UNCHANGED <<mountSaw, chat, rendererVars>>

ScrollDisconnect == CliDisconnect(1) /\ UNCHANGED <<mountSaw, chat, rendererVars>>

ScrollGet == CliGetScrollback(1) /\ UNCHANGED <<mountSaw, chat, rendererVars>>

ScrollNext ==
    \/ ScrollConnect
    \/ ScrollDisconnect
    \/ ScrollGet
    \/ PtyData
    \/ PtyExit

SpecScroll == PtyInit /\ [][ScrollNext]_vars

----------------------------------------------------------------------------
(* Properties of the PTY registry *)

ConnectStep(sid) ==
    ipcReply'.seq # ipcReply.seq /\ ipcReply'.op = "connect" /\ ipcReply'.sid = sid

DisconnectStep(sid) ==
    ipcReply'.seq # ipcReply.seq /\ ipcReply'.op = "disconnect" /\ ipcReply'.sid = sid

SpawnStep(sid) == Len(procs') > Len(procs) /\ procs'[Len(procs')].sid = sid

ExitStep(sid) ==
    \E pid \in 1..Len(procs) :
        procs[pid].sid = sid /\ procs[pid].status # "exited" /\ procs'[pid].status = "exited"

RunningFor(sid) == {pid \in 1..Len(procs) : procs[pid].sid = sid /\ Running(pid)}

\* C1: a connect for an id that has a registry entry spawns nothing and answers
\* ok:true, existing:true; a process is spawned for an id only while the id has
\* no entry, and the entry it leaves stays until a disconnect or an exit
\* callback for that id, so two connects with neither in between spawn one
\* process.
C1_ConnectIdempotent ==
    [][\A sid \in PtyKeys :
          /\ (ConnectStep(sid) /\ HasEntry(sid)) =>
                /\ procs' = procs
                /\ cliProcesses' = cliProcesses
                /\ ipcReply'.ok /\ ipcReply'.existing
          /\ SpawnStep(sid) =>
                /\ ~HasEntry(sid)
                /\ Len(procs') = Len(procs) + 1
                /\ cliProcesses'[sid] = Len(procs')
          /\ (HasEntry(sid) /\ cliProcesses'[sid] # cliProcesses[sid]) =>
                (DisconnectStep(sid) \/ ExitStep(sid))]_vars

\* A second connect found the entry of the first: one process, still running.
C1_Witness ==
    /\ ipcReply.op = "connect" /\ ipcReply.existing /\ ipcReply.sid = 1
    /\ Len(procs) = 1 /\ Running(1) /\ cliProcesses[1] = 1

\* C5: a session id has a registry entry exactly when a process spawned for it
\* is running, and no id has two running processes.
C5_EntryIffRunning ==
    \A sid \in PtyKeys :
        /\ HasEntry(sid) <=> RunningFor(sid) # {}
        /\ Cardinality(RunningFor(sid)) <= 1

\* The exit callback of a killed process fired after a later connect: the
\* process of that connect runs without an entry.
C5_Witness ==
    \E sid \in PtyKeys, p1, p2 \in 1..Len(procs) :
        /\ p1 < p2 /\ procs[p1].sid = sid /\ procs[p2].sid = sid
        /\ procs[p1].status = "exited" /\ Running(p2)
        /\ ~HasEntry(sid)

\* C4: the scrollback of every process is at most MAX_SCROLLBACK characters
\* long and is the last min(MAX_SCROLLBACK, total) characters of all it has
\* emitted; what getScrollback answers is no longer than the cap.
C4_ScrollbackIsSuffix ==
    /\ \A pid \in 1..Len(procs) :
          LET sb == procs[pid].scrollback
              out == procs[pid].emitted
          IN /\ Len(sb) <= MAX_SCROLLBACK
             /\ Len(sb) = Min(MAX_SCROLLBACK, Len(out))
             /\ \A i \in 1..Len(sb) : sb[i] = out[Len(out) - Len(sb) + i]
    /\ Len(ipcReply.data) <= MAX_SCROLLBACK

\* A process has emitted more than the cap and getScrollback answered the tail.
C4_Witness ==
    /\ HasEntry(1)
    /\ Len(procs[cliProcesses[1]].emitted) > MAX_SCROLLBACK
    /\ ipcReply.op = "getScrollback"
    /\ ipcReply.data = procs[cliProcesses[1]].scrollback

\* C15: a disconnect answers ok:true; for an id with no registry entry it kills
\* no process and leaves the registry as it was; for an id with an entry it
\* kills the process of that entry, leaves every other process alone and
\* removes that entry and no other.
C15_DisconnectSafe ==
    [][\A sid \in PtyKeys :
          DisconnectStep(sid) =>
             /\ ipcReply'.ok
             /\ ~HasEntry(sid) =>
                   /\ procs' = procs
                   /\ cliProcesses' = cliProcesses
             /\ HasEntry(sid) =>
                   /\ Len(procs') = Len(procs)
                   /\ procs'[cliProcesses[sid]].status = "killed"
                   /\ \A pid \in 1..Len(procs) :
                         pid # cliProcesses[sid] => procs'[pid] = procs[pid]
                   /\ cliProcesses' = [cliProcesses EXCEPT ![sid] = NoPid]]_vars

\* A disconnect for session 2, which never had a process, was answered while
\* the process of session 1 ran on under its entry.
C15_Witness ==
    /\ ipcReply.op = "disconnect" /\ ipcReply.sid = 2 /\ ipcReply.ok
    /\ \A pid \in 1..Len(procs) : procs[pid].sid # 2
    /\ HasEntry(1) /\ Running(cliProcesses[1])

\* A connect answered ok:false: it left the registry and the processes alone
\* and gave an error; and a process is spawned in a connect step only.
ConnectFailsCleanly(sid) ==
    /\ (ConnectStep(sid) /\ ~ipcReply'.ok) =>
          /\ ipcReply'.error # ""
          /\ cliProcesses' = cliProcesses
          /\ procs' = procs
    /\ SpawnStep(sid) => (ConnectStep(sid) /\ ipcReply'.ok /\ ~ipcReply'.existing)

\* C16 as stated: every connect with a provider kind that is not in
\* CLI_COMMANDS, or whose spawn fails, answers ok:false with an error, leaves
\* the registry unchanged, and no spawn follows but in another connect.
C16_FailedConnectLeavesNothing ==
    [][\A sid \in PtyKeys :
          /\ (ConnectStep(sid) /\ ipcReply'.provider \notin CLI_COMMANDS) =>
                ~ipcReply'.ok
          /\ ConnectFailsCleanly(sid)]_vars

\* C16, amended: the same for an id that has no registry entry; for an id that
\* has one the answer is ok:true, existing:true whatever the provider kind.
C16_FailedConnectWithoutEntry ==
    [][\A sid \in PtyKeys :
          /\ (ConnectStep(sid) /\ ipcReply'.provider \notin CLI_COMMANDS) =>
                IF HasEntry(sid)
                THEN ipcReply'.ok /\ ipcReply'.existing
                ELSE ~ipcReply'.ok
          /\ ConnectFailsCleanly(sid)]_vars

\* A connect for session 2 with an unknown provider kind was refused while the
\* process of session 1 ran on under its entry.
C16_Witness ==
    /\ ipcReply.op = "connect" /\ ipcReply.sid = 2
    /\ ipcReply.provider \notin CLI_COMMANDS
    /\ ~ipcReply.ok /\ ipcReply.error = "unknown"
    /\ ~HasEntry(2)
    /\ HasEntry(1) /\ Running(cliProcesses[1])

----------------------------------------------------------------------------
(* The renderer: user operations on the store, with the SessionPanel handlers
   suspended at their awaits. The PTY side stays as it started. *)

MaxPending == 2      \* handlers suspended at an await at the same time

SpecProviders == {"anthropic", "claude-code"}

PendingCount == Cardinality(pending.switches) + Cardinality(pending.deletes)
                    + Cardinality(pending.dirs)

\* The observer of a round trip: it starts when switch(b) is clicked with a
\* active and no handler in flight, and follows the two switches to their end.
TripStart(st, id, suspends) ==
    [phase |-> IF suspends THEN "out" ELSE "mid", a |-> st.activeId, b |-> id,
     messages |-> st.chat.messages, tasks |-> st.task.tasks]

TripOnSwitch(st, id, suspends) ==
    IF ~Idle \/ st.activeId = Null THEN NoTrip
    ELSE IF trip.phase = "mid" /\ trip.a = id /\ trip.b = st.activeId
    THEN [trip EXCEPT !.phase = IF suspends THEN "back" ELSE "done"]
    ELSE TripStart(st, id, suspends)

TripOnResume ==
    IF trip.phase = "out" THEN [trip EXCEPT !.phase = "mid"]
    ELSE IF trip.phase = "back" THEN [trip EXCEPT !.phase = "done"]
    ELSE NoTrip

\* SessionPanel: the add form is submitted
UserAddSession ==
    \E nameInput \in NameInputs :
        /\ store.created < MaxSessions
        /\ store' = handleAddSession(store, nameInput)
        /\ trip' = NoTrip
        /\ UNCHANGED <<pending, term, edits, ptyVars>>

\* SessionPanel: a session of the list is clicked
UserSwitch ==
    \E id \in SessionIdsOf(store) :
        LET suspends == SwitchSuspends(store, id) IN
        /\ suspends => PendingCount < MaxPending
        /\ store' = handleSwitchSync(store, id)
        /\ pending' =
             IF suspends
             THEN [pending EXCEPT !.switches = @ \cup
                     {[id |-> id,
                       path |-> store.sessions[FindIndex(store.sessions, id)].path]}]
             ELSE pending
        /\ trip' = IF id = store.activeId THEN trip
                   ELSE TripOnSwitch(store, id, suspends)
        /\ UNCHANGED <<term, edits, ptyVars>>

\* fs.readDir answers a suspended handleSwitch
SwitchResume ==
    \E h \in pending.switches, ok \in BOOLEAN :
        /\ store' = handleSwitchResume(store, h, ok)
        /\ pending' = [pending EXCEPT !.switches = @ \ {h}]
        /\ trip' = TripOnResume
        /\ UNCHANGED <<term, edits, ptyVars>>

\* SessionPanel: the delete button of a session is clicked; the handler
\* awaits cli.disconnect(id)
UserDelete ==
    \E id \in SessionIdsOf(store) :
        /\ PendingCount < MaxPending
        /\ pending' = [pending EXCEPT !.deletes = @ \cup
                         {[id |-> id, activeId |-> store.activeId,
                           sessions |-> store.sessions]}]
        /\ trip' = NoTrip
        /\ UNCHANGED <<store, term, edits, ptyVars>>

\* cli.disconnect answers a suspended handleDelete
DeleteResume ==
    \E h \in pending.deletes :
        /\ store' = handleDeleteResume(store, h)
        /\ pending' = [pending EXCEPT !.deletes = @ \ {h},
                                      !.dirs = @ \cup DeleteLists(h)]
        /\ trip' = NoTrip
        /\ UNCHANGED <<term, edits, ptyVars>>

\* fs.readDir answers the listing handleDelete asked for
DirDone ==
    \E path \in pending.dirs, ok \in BOOLEAN :
        /\ store' = IF ok THEN setDirectory(store, path) ELSE store
        /\ pending' = [pending EXCEPT !.dirs = @ \ {path}]
        /\ trip' = NoTrip
        /\ UNCHANGED <<term, edits, ptyVars>>

\* One more user edit of the live view
Edit(st) ==
    /\ edits < MaxEdits
    /\ edits' = edits + 1
    /\ store' = st
    /\ trip' = NoTrip
    /\ UNCHANGED <<pending, term, ptyVars>>

\* ChatPanel.sendMessage in chat mode, the attached file being unreadable: an
\* error message enters the live chat
ChatAdd ==
    /\ ~(isCliProvider(store.api.provider) /\ store.api.connected)
    /\ store.chat.nextId <= MaxMsgId
    /\ Edit(addMessage(store, "error", "m"))

\* FileExplorer.handleEntryClick on a file: removeWelcome
FileSelect == Edit(removeWelcome(store))

\* TaskPanel: add / toggle
TaskAdd ==
    /\ store.task.counter < MaxTaskId
    /\ Edit(addTask(store, "t"))

TaskToggle ==
    \E i \in 1..Len(store.task.tasks) : Edit(toggleTask(store, store.task.tasks[i].id))

\* FileExplorer.loadDirectory with a listing that succeeds (the startup load of
\* the home directory included)
Navigate == \E path \in Paths \ {""} : Edit(setDirectory(store, path))

\* ApiPanel.handleProviderChange (login mode)
ApiSetProvider ==
    \E p \in SpecProviders :
        /\ ~store.api.connected
        /\ Edit(setProvider(store, p))

\* ApiPanel.handleCliConnect / handleSubmit (login mode); ok is the answer of
\* config.set
ApiConnect ==
    /\ ~store.api.connected
    /\ IF isCliProvider(store.api.provider)
       THEN Edit(setConnected(store, TRUE))
       ELSE \E ok \in BOOLEAN :
              LET st == setApiKey(store, store.api.provider, "k") IN
              Edit(IF ok THEN setConnected(st, TRUE) ELSE st)

\* ApiPanel.handleSwitch / handleCliDisconnect (connected mode)
ApiDisconnect ==
    /\ store.api.connected
    /\ Edit(disconnect(store))

\* The renderer is reloaded: every slice starts from its initial state
Reloaded(st) ==
    [st EXCEPT !.sessions = sessionLoadState(st.ls.sessions).sessions,
               !.activeId = sessionLoadState(st.ls.sessions).activeId,
               !.chat = chatInitialState,
               !.refs = NoRefs,
               !.task = taskLoadFromStorage(st.ls.tasks),
               !.file = [currentPath |-> ""],
               !.api = apiLoadState(st.ls.api)]

Restart ==
    /\ edits < MaxEdits
    /\ edits' = edits + 1
    /\ store' = Reloaded(store)
    /\ pending' = NoPending
    /\ trip' = NoTrip
    /\ UNCHANGED <<term, ptyVars>>

Init == PtyInit

Next ==
    \/ UserAddSession
    \/ UserSwitch
    \/ SwitchResume
    \/ UserDelete
    \/ DeleteResume
    \/ DirDone
    \/ ChatAdd
    \/ FileSelect
    \/ TaskAdd
    \/ TaskToggle
    \/ Navigate
    \/ ApiSetProvider
    \/ ApiConnect
    \/ ApiDisconnect
    \/ Restart

Spec == Init /\ [][Next]_vars

\* Sessions being filled and switched, nothing else
TripNext ==
    \/ UserAddSession
    \/ UserSwitch
    \/ SwitchResume
    \/ ChatAdd
    \/ FileSelect
    \/ TaskAdd
    \/ TaskToggle
    \/ Navigate

SpecTrip == Init /\ [][TripNext]_vars

----------------------------------------------------------------------------
(* The session slice under arbitrary dispatches *)

StoreIds == 1..MaxSessions

\* Snapshots handed to saveCurrentState
Snapshots ==
    {[messages |-> <<>>, nextId |-> 1, tasks |-> <<>>, taskCounter |-> 0,
      currentPath |-> ""],
     [messages |-> <<[id |-> 1, type |-> "error", text |-> "m"]>>, nextId |-> 2,
      tasks |-> <<[id |-> 1, text |-> "t", done |-> FALSE]>>, taskCounter |-> 1,
      currentPath |-> "/p"]}

Dispatch(st) == store' = st /\ UNCHANGED <<pending, term, edits, trip, ptyVars>>

StoreAdd ==
    \E path \in Paths :
        /\ store.created < MaxSessions
        /\ Dispatch(addSession(store, <<"n">>, path))

StoreDelete == \E id \in StoreIds : Dispatch(deleteSession(store, id))

StoreSwitch == \E id \in StoreIds : Dispatch(switchSession(store, id))

StoreRename == \E id \in StoreIds : Dispatch(renameSession(store, id, <<"r">>))

StoreSave == \E snap \in Snapshots : Dispatch(saveCurrentState(store, snap))

StoreUpdatePath ==
    \E id \in StoreIds, path \in Paths : Dispatch(updateSessionPath(store, id, path))

StoreReload == Dispatch(Reloaded(store))

StoreNext ==
    \/ StoreAdd
    \/ StoreDelete
    \/ StoreSwitch
    \/ StoreRename
    \/ StoreSave
    \/ StoreUpdatePath
    \/ StoreReload

SpecStore == Init /\ [][StoreNext]_vars

\* C6: activeId is null or the id of a member of sessions.
C6_ActiveIdResolves ==
    store.activeId = Null \/ store.activeId \in SessionIdsOf(store)

\* The first session was deleted and the second, renamed and saved, is active.
C6_Witness ==
    /\ store.created >= 2
    /\ Len(store.sessions) = 1
    /\ store.sessions[1].id = 2
    /\ store.activeId = 2
    /\ store.sessions[1].name = <<"r">>
    /\ store.sessions[1].path = "/p"

----------------------------------------------------------------------------
(* The api slice loaded from what localStorage holds *)

\* What localStorage can hold under 'cowork-api-config': nothing, or a JSON
\* object whose fields are there or not ("" / "missing": the field is absent).
RawApiBlobs ==
    {Absent} \cup
    [present : {TRUE},
     provider : Provider \cup {""},
     model : {"m"},
     hasApiKeys : BOOLEAN,
     apiKeys : {[p \in Provider |-> ""]},
     connected : {"true", "false", "1", "missing"},
     connectedSessions :
        {EmptyFn,
         [x \in {1} |-> [connected |-> TRUE, provider |-> "claude-code", model |-> ""]]}]

LoadInit ==
    /\ MainInit
    /\ store \in {[InitialStore EXCEPT !.ls.api = raw] : raw \in RawApiBlobs}
    /\ pending = NoPending
    /\ term = NoTerm
    /\ edits = 0
    /\ trip = NoTrip

\* The renderer starts: apiSlice initialState = loadState()
LoadApi ==
    /\ trip.phase # "loaded"
    /\ store' = [store EXCEPT !.api = apiLoadState(store.ls.api)]
    /\ trip' = [phase |-> "loaded"]
    /\ edits' = 1
    /\ UNCHANGED <<pending, term, ptyVars>>

\* A dispatch to the slice of the running renderer (edits = 1: it has started)
Changed(st) ==
    /\ edits = 1
    /\ store' = st
    /\ trip' = NoTrip
    /\ UNCHANGED <<pending, term, edits, ptyVars>>

LoadSetProvider == \E p \in Provider : Changed(setProvider(store, p))

LoadSetConnected == \E b \in BOOLEAN : Changed(setConnected(store, b))

LoadSaveSession == Changed(saveSessionConnected(store, 1))

LoadRestoreSession == Changed(restoreSessionConnected(store, 1))

LoadNext ==
    \/ LoadApi
    \/ LoadSetProvider
    \/ LoadSetConnected
    \/ LoadSaveSession
    \/ LoadRestoreSession

SpecLoad == LoadInit /\ [][LoadNext]_vars

\* C10: right after a load the api slice holds no connected CLI provider, a
\* stored CLI provider with connected=true is loaded as connected=false, and
\* connectedSessions is empty whatever was stored.
C10_NoCliConnectionSurvives ==
    trip.phase = "loaded" =>
        /\ store.api.connectedSessions = EmptyFn
        /\ isCliProvider(store.api.provider) => ~store.api.connected
        /\ (/\ store.ls.api.present
            /\ isCliProvider(store.ls.api.provider)
            /\ store.ls.api.connected = "true") => ~store.api.connected

\* A blob written by the slice itself, with a CLI provider connected and a
\* session snapshot, was loaded.
C10_Witness ==
    /\ trip.phase = "loaded"
    /\ store.ls.api.present
    /\ store.ls.api.hasApiKeys
    /\ store.ls.api.provider = "claude-code"
    /\ store.ls.api.model = ""
    /\ store.ls.api.connected = "true"
    /\ store.ls.api.connectedSessions # EmptyFn
    /\ store.api.provider = "claude-code"

----------------------------------------------------------------------------
(* Properties of the SessionPanel handlers *)

StoredOf(id) == store.sessions[FindIndex(store.sessions, id)]

\* What the live chat shows for a stored message list
Shown(messages) == IF messages = <<>> THEN <<Welcome>> ELSE messages

RealMessages(messages) == SelectSeq(messages, LAMBDA m : m.id # 0)

DeleteDone(h) ==
    /\ h \in pending.deletes
    /\ h.id \in SessionIdsOf(store)
    /\ pending'.deletes = pending.deletes \ {h}
    /\ store'.sessions = FilterOut(store.sessions, h.id)

ConnectionOf(st, id) ==
    IF id \in DOMAIN st.api.connectedSessions
    THEN st.api.connectedSessions[id]
    ELSE [connected |-> FALSE, provider |-> st.api.provider, model |-> st.api.model]

LiveConnection(st) ==
    [connected |-> st.api.connected, provider |-> st.api.provider,
     model |-> st.api.model]

\* C7: a delete of the active session, with other sessions remaining, makes the
\* first remaining session active and puts that session's stored messages,
\* tasks and connection snapshot into the live view.
C7_DeleteActiveFallsBack ==
    [][\A h \in pending.deletes :
          (/\ DeleteDone(h)
           /\ store.activeId = h.id
           /\ Len(store.sessions) > 1) =>
             LET next == FilterOut(store.sessions, h.id)[1] IN
             /\ store'.activeId = next.id
             /\ store'.chat.messages = Shown(next.messages)
             /\ store'.task.tasks = next.tasks
             /\ store'.task.counter = next.taskCounter
             /\ LiveConnection(store') = ConnectionOf(store, next.id)]_vars

\* C8: a delete of the only session left sets activeId to null, empties the
\* live chat (nextId 1) and the live tasks (counter 0) and leaves the live
\* connection disconnected.
C8_DeleteLastClears ==
    [][\A h \in pending.deletes :
          (/\ DeleteDone(h)
           /\ Len(store.sessions) = 1) =>
             /\ store'.activeId = Null
             /\ RealMessages(store'.chat.messages) = <<>>
             /\ store'.chat.nextId = 1
             /\ store'.task = [tasks |-> <<>>, counter |-> 0]
             /\ ~store'.api.connected]_vars

\* C9: handleAddSession with a session active appends a session with no
\* messages, no tasks and taskCounter 0, makes it active, and leaves the stored
\* path of the session that was active as it was.
C9_AddSessionKeepsPath ==
    [][(/\ store'.created = store.created + 1
        /\ store.activeId \in SessionIdsOf(store)) =>
          LET a == FindIndex(store.sessions, store.activeId)
              n == Len(store'.sessions)
          IN /\ n = Len(store.sessions) + 1
             /\ store'.sessions[n].messages = <<>>
             /\ store'.sessions[n].tasks = <<>>
             /\ store'.sessions[n].taskCounter = 0
             /\ store'.activeId = store'.sessions[n].id
             /\ store'.sessions[a].path = store.sessions[a].path]_vars

----------------------------------------------------------------------------
(* Two sessions, the first with a CLI terminal: the switches between them, the
   ChatPanel render and the TerminalView mount effect, against the registry *)

MaxSwitches == 2     \* session clicks in one run

\* The CLI provider session 1 is connected to
ScenarioProvider == "claude-code"

\* ChatPanel render: the TerminalView the store calls for. An effect whose
\* sessionId, provider and sessionPath are unchanged keeps running; any other
\* is cleaned up (cancelled) and a new one starts with cli.exists, on a new
\* xterm with nothing written (screen).
Render(t, st) ==
    LET i == FindIndex(st.sessions, st.activeId)
        path == IF i # 0 THEN st.sessions[i].path ELSE ""
    IN IF ~(isCliProvider(st.api.provider) /\ st.api.connected) THEN NoTerm
       ELSE IF /\ t.mounted
               /\ t.sid = st.activeId
               /\ t.provider = st.api.provider
               /\ t.path = path
       THEN t
       ELSE [mounted |-> TRUE, sid |-> st.activeId, provider |-> st.api.provider,
             path |-> path, phase |-> "exists", screen |-> <<>>]

\* The effect t is cleaned up when the render gives t2
Unmounts(t, t2) ==
    /\ t.mounted
    /\ \/ ~t2.mounted
       \/ t2.sid # t.sid \/ t2.provider # t.provider \/ t2.path # t.path

\* What the cleanup of the TerminalView effect does to the main process: it
\* removes its listeners and disposes xterm, and sends nothing.
CleanupKills(t, t2) ==
    IF Unmounts(t, t2) THEN CliDisconnect(t.sid)
    ELSE UNCHANGED <<cliProcesses, procs, ipcReply>>

Cleanup(t, t2) == UNCHANGED <<cliProcesses, procs, ipcReply>>

\* handleSwitch run to its end, the listing having succeeded
SwitchedTo(st, id) ==
    IF SwitchSuspends(st, id)
    THEN handleSwitchResume(handleSwitchSync(st, id),
                            [id |-> id,
                             path |-> st.sessions[FindIndex(st.sessions, id)].path],
                            TRUE)
    ELSE handleSwitchSync(st, id)

\* The store after: explorer at p1, session 1 added, explorer at p2, session 2
\* added, session 1 clicked, provider claude-code chosen, Connect pressed.
AppStore(p1, p2) ==
    LET s0 == IF p1 = "" THEN InitialStore ELSE setDirectory(InitialStore, p1)
        s1 == handleAddSession(s0, <<"n">>)
        s2 == handleAddSession(IF p2 = p1 THEN s1 ELSE setDirectory(s1, p2), <<"n">>)
        s3 == SwitchedTo(s2, 1)
    IN setConnected(setProvider(s3, ScenarioProvider), TRUE)

\* ... and the terminal of session 1 has mounted and spawned its process.
AppInit ==
    /\ \E p1 \in Paths, p2 \in Paths \ {""} :
          /\ p1 \in {"", p2}
          /\ store = AppStore(p1, p2)
    /\ cliProcesses = [sid \in PtyKeys |-> IF sid = 1 THEN 1 ELSE NoPid]
    /\ procs = <<[sid |-> 1, provider |-> ScenarioProvider, status |-> "running",
                  scrollback |-> <<>>, emitted |-> <<>>,
                  input |-> <<>>, size |-> <<80, 24>>,
                  sent |-> <<>>]>>
    /\ ipcReply = [NoReply EXCEPT !.seq = TRUE, !.op = "connect", !.sid = 1,
                                  !.provider = ScenarioProvider]
    /\ mountSaw = [sid \in PtyKeys |-> 0]
    /\ chat = NoChat
    /\ pending = NoPending
    /\ term = [Render(NoTerm, store) EXCEPT !.phase = "attached"]
    /\ edits = 0
    /\ trip = NoTrip

\* SessionPanel: the other session is clicked
AppSwitch ==
    \E id \in SessionIdsOf(store) \ {store.activeId} :
        /\ edits < MaxSwitches
        /\ edits' = edits + 1
        /\ store' = handleSwitchSync(store, id)
        /\ pending' =
             IF SwitchSuspends(store, id)
             THEN [pending EXCEPT !.switches = @ \cup
                     {[id |-> id,
                       path |-> store.sessions[FindIndex(store.sessions, id)].path]}]
             ELSE pending
        /\ term' = Render(term, store')
        /\ Cleanup(term, term')
        /\ UNCHANGED <<trip, mountSaw, chat>>

AppSwitchResume ==
    \E h \in pending.switches, ok \in BOOLEAN :
        /\ store' = handleSwitchResume(store, h, ok)
        /\ pending' = [pending EXCEPT !.switches = @ \ {h}]
        /\ term' = Render(term, store')
        /\ Cleanup(term, term')
        /\ UNCHANGED <<edits, trip, mountSaw, chat>>

\* TerminalView mount effect: the answer of cli.exists
AppTermExists ==
    /\ term.mounted /\ term.phase = "exists"
    /\ MountExists(term.sid)
    /\ term' = [term EXCEPT !.phase = IF HasEntry(term.sid) THEN "reattach"
                                      ELSE "connecting"]
    /\ UNCHANGED <<chat, store, pending, edits, trip>>

\* TerminalView mount effect: the answer of cli.getScrollback
AppTermScrollback ==
    /\ term.mounted /\ term.phase = "reattach"
    /\ CliGetScrollback(term.sid)
    /\ term' = [term EXCEPT !.phase = "attached"]
    /\ UNCHANGED <<mountSaw, chat, store, pending, edits, trip>>

\* The cli.connect an effect sent after exists:false reaches the main process,
\* whether or not the effect has been cleaned up since.
AppMountConnect ==
    \E sid \in PtyKeys, spawnOk \in BOOLEAN :
        /\ MountConnect(sid, ScenarioProvider, spawnOk)
        /\ term' = IF term.mounted /\ term.sid = sid /\ term.phase = "connecting"
                   THEN [term EXCEPT !.phase = IF ipcReply'.ok THEN "attached"
                                               ELSE "failed"]
                   ELSE term
        /\ UNCHANGED <<chat, store, pending, edits, trip>>

\* A process writes to its terminal
\* (trip keeps which process it was and which session was in front)
AppData ==
    \E pid \in 1..Len(procs), k \in 1..MaxChunk :
        /\ ProcData(pid, k)
        /\ trip' = [phase |-> "data", pid |-> pid, front |-> store.activeId]
        /\ UNCHANGED <<mountSaw, chat, store, pending, term, edits>>

AppNext ==
    \/ AppSwitch
    \/ AppSwitchResume
    \/ AppTermExists
    \/ AppTermScrollback
    \/ AppMountConnect
    \/ AppData

SpecApp == AppInit /\ [][AppNext]_vars

SwitchStep ==
    \/ store'.activeId # store.activeId
    \/ pending'.switches # pending.switches

\* C11: a step of handleSwitch, and the cleanup of the terminal effect it
\* causes, kills no process and removes no registry entry: the registry and
\* every process are after the step what they were before it, so the entry of
\* session 1 and its running process are there in every state.
C11_SwitchKeepsRegistry ==
    [][/\ (SwitchStep \/ Unmounts(term, term')) =>
             /\ cliProcesses' = cliProcesses
             /\ procs' = procs
       /\ cliProcesses'[1] = 1
       /\ procs'[1].status = "running"]_vars

\* Session 2 is in front with no terminal, the switch to it has run to its
\* end, and the process of session 1 still runs under its entry.
C11_Witness ==
    /\ store.activeId = 2
    /\ pending.switches = {}
    /\ ~term.mounted
    /\ ~store.api.connected
    /\ cliProcesses[1] = 1
    /\ Running(1)

----------------------------------------------------------------------------
(* handleDelete against the terminal mount and the registry. Every window.api
   call is a message: the main process handles the calls in the order they
   were sent and its answers reach the renderer in that order. A dispatch is
   followed at once by the render and the effect cleanup it causes. *)

MaxClicks == 5       \* clicks (provider, connect, add, session, delete) in one run
MaxInFlight == 3     \* calls in flight when a click adds one more

\* One call: h is the closure of the handler that awaits it (Absent for the
\* calls of the terminal effect), cancelled the flag of the effect that sent it
Call(op, sid, provider, h) ==
    [op |-> op, sid |-> sid, provider |-> provider, h |-> h,
     cancelled |-> FALSE, handled |-> FALSE, exists |-> FALSE, ok |-> TRUE]

MountOps == {"exists", "getScrollback", "connect"}

\* cancelled = true of the effect cleanup, as seen by the calls of the effect
CancelMount(q) ==
    [i \in 1..Len(q) |->
        IF q[i].op \in MountOps THEN [q[i] EXCEPT !.cancelled = TRUE] ELSE q[i]]

\* A dispatch that leaves the store st, the calls in flight being q: ChatPanel
\* renders, a stale effect is cleaned up, a new effect sends cli.exists
AfterDispatch(st, q) ==
    /\ store' = st
    /\ term' = Render(term, st)
    /\ Cleanup(term, term')
    /\ pending' = [pending EXCEPT !.ipc =
          LET q2 == IF Unmounts(term, term') THEN CancelMount(q) ELSE q IN
          IF term'.mounted /\ term' # term
          THEN Append(q2, Call("exists", term'.sid, term'.provider, Absent))
          ELSE q2]

Click == edits < MaxClicks /\ Len(pending.ipc) < MaxInFlight /\ edits' = edits + 1

\* The observer of an add: the session that was active and its live
\* connection when the add form was submitted ...
AddObserved(st) ==
    IF st.activeId # Null
    THEN [phase |-> "added", a |-> st.activeId, snap |-> LiveConnection(st)]
    ELSE NoTrip

\* ... and the live connection when a handleSwitch to that session has ended
BackObserved(id, ended, st) ==
    IF ended /\ trip.phase = "added" /\ trip.a = id
    THEN [phase |-> "back", a |-> id, snap |-> trip.snap, live |-> LiveConnection(st)]
    ELSE trip

\* ApiPanel.handleCliConnect / handleSubmit with config.set answering ok
DelConnect ==
    /\ Click
    /\ ~store.api.connected
    /\ AfterDispatch(IF isCliProvider(store.api.provider)
                     THEN setConnected(store, TRUE)
                     ELSE setConnected(setApiKey(store, store.api.provider, "k"), TRUE),
                     pending.ipc)
    /\ UNCHANGED <<mountSaw, chat, trip>>

\* SessionPanel.handleSwitch, to its await of fs.readDir or to its end
DelSwitch ==
    \E id \in SessionIdsOf(store) \ {store.activeId} :
        /\ Click
        /\ AfterDispatch(handleSwitchSync(store, id),
              IF SwitchSuspends(store, id)
              THEN Append(pending.ipc,
                     Call("readDir", id, "",
                          [id |-> id,
                           path |-> store.sessions[FindIndex(store.sessions, id)].path]))
              ELSE pending.ipc)
        /\ trip' = BackObserved(id, ~SwitchSuspends(store, id), store')
        /\ UNCHANGED <<mountSaw, chat>>

\* SessionPanel.handleDelete, to its await of cli.disconnect
DelDelete ==
    \E id \in SessionIdsOf(store) :
        /\ Click
        /\ pending' = [pending EXCEPT !.ipc =
              Append(@, Call("disconnect", id, "",
                             [id |-> id, activeId |-> store.activeId,
                              sessions |-> store.sessions]))]
        /\ UNCHANGED <<store, term, trip, ptyVars>>

\* The oldest call the main process has not handled yet
NextCall(q) ==
    IF \E i \in 1..Len(q) : ~q[i].handled
    THEN CHOOSE i \in 1..Len(q) : ~q[i].handled /\ \A j \in 1..(i - 1) : q[j].handled
    ELSE 0

\* The main process runs the handler of the next call
DelHandle ==
    LET i == NextCall(pending.ipc) IN
    /\ i # 0
    /\ LET c == pending.ipc[i] IN
       /\ CASE c.op = "exists" -> CliExists(c.sid)
            [] c.op = "getScrollback" -> CliGetScrollback(c.sid)
            [] c.op = "connect" ->
                 \E spawnOk \in BOOLEAN : CliConnect(c.sid, c.provider, spawnOk)
            [] c.op = "disconnect" -> CliDisconnect(c.sid)
            [] OTHER -> UNCHANGED <<cliProcesses, procs, ipcReply>>
       /\ \E dirOk \in BOOLEAN :
            /\ c.op \notin {"readDir", "dir"} => dirOk
            /\ pending' = [pending EXCEPT !.ipc[i] =
                  [c EXCEPT !.handled = TRUE,
                            !.exists = IF c.op = "exists" THEN ipcReply'.exists ELSE FALSE,
                            !.ok = IF c.op \in {"readDir", "dir"} THEN dirOk
                                   ELSE IF c.op \in MountOps THEN ipcReply'.ok
                                   ELSE TRUE]]
    /\ UNCHANGED <<mountSaw, chat, store, term, edits, trip>>

\* The answer the renderer receives next
Answered(op) ==
    /\ pending.ipc # <<>>
    /\ Head(pending.ipc).handled
    /\ Head(pending.ipc).op = op

\* TerminalView mount, after await cli.exists
DelExistsReply ==
    /\ Answered("exists")
    /\ LET c == Head(pending.ipc)
           rest == Tail(pending.ipc)
       IN IF c.cancelled
          THEN pending' = [pending EXCEPT !.ipc = rest] /\ term' = term
          ELSE /\ pending' = [pending EXCEPT !.ipc =
                     Append(rest, Call(IF c.exists THEN "getScrollback" ELSE "connect",
                                       c.sid, c.provider, Absent))]
               /\ term' = [term EXCEPT !.phase = IF c.exists THEN "reattach"
                                                 ELSE "connecting"]
    /\ UNCHANGED <<store, edits, trip, ptyVars>>

\* TerminalView mount, after await cli.getScrollback or cli.connect
DelAttachReply ==
    /\ Answered("getScrollback") \/ Answered("connect")
    /\ LET c == Head(pending.ipc) IN
       term' = IF c.cancelled THEN term
               ELSE [term EXCEPT !.phase = IF c.ok THEN "attached" ELSE "failed"]
    /\ pending' = [pending EXCEPT !.ipc = Tail(@)]
    /\ UNCHANGED <<store, edits, trip, ptyVars>>

\* The ids whose handleDelete has run to its end
Deleted == IF trip.phase = "deleted" THEN trip.ids ELSE {}

\* SessionPanel.handleDelete, after await cli.disconnect
DelDeleteResume ==
    /\ Answered("disconnect")
    /\ LET h == Head(pending.ipc).h
           dirs == DeleteLists(h)
       IN /\ AfterDispatch(handleDeleteResume(store, h),
                IF dirs = {} THEN Tail(pending.ipc)
                ELSE Append(Tail(pending.ipc),
                            Call("dir", Null, "", [path |-> CHOOSE d \in dirs : TRUE])))
          /\ trip' = [phase |-> "deleted", ids |-> Deleted \cup {h.id}]
    /\ UNCHANGED <<edits, mountSaw, chat>>

\* SessionPanel.handleSwitch, after await fs.readDir
DelSwitchResume ==
    /\ Answered("readDir")
    /\ LET c == Head(pending.ipc) IN
       /\ AfterDispatch(handleSwitchResume(store, c.h, c.ok), Tail(pending.ipc))
       /\ trip' = BackObserved(c.h.id, TRUE, store')
    /\ UNCHANGED <<edits, mountSaw, chat>>

\* The listing handleDelete asked for arrives
DelDirReply ==
    /\ Answered("dir")
    /\ LET c == Head(pending.ipc) IN
       AfterDispatch(IF c.ok THEN setDirectory(store, c.h.path) ELSE store,
                     Tail(pending.ipc))
    /\ UNCHANGED <<edits, mountSaw, chat, trip>>

\* The exit callback of a process
DelExit ==
    \E pid \in 1..Len(procs) : ProcExit(pid) /\ UNCHANGED <<mountSaw, chat, rendererVars>>

DelNext ==
    \/ DelConnect
    \/ DelSwitch
    \/ DelDelete
    \/ DelHandle
    \/ DelExistsReply
    \/ DelAttachReply
    \/ DelDeleteResume
    \/ DelSwitchResume
    \/ DelDirReply
    \/ DelExit

SpecDel == AppInit /\ [][DelNext]_vars

\* C12: once handleDelete(id) has run to its end, the registry has no entry for
\* id, connectedSessions has no key id and sessions has no member id, in every
\* later state.
C12_DeletedIsGone ==
    \A id \in Deleted :
        /\ ~HasEntry(id)
        /\ id \notin DOMAIN store.api.connectedSessions
        /\ id \notin SessionIdsOf(store)

----------------------------------------------------------------------------
(* handleAddSession and the switch back, from an empty store: sessions are
   added, a provider is chosen and connected, sessions are clicked; the
   terminal effect and the registry follow as above. *)

\* The explorer has listed the home directory at startup, or has failed to
AddInit ==
    /\ MainInit
    /\ store \in {InitialStore} \cup {setDirectory(InitialStore, p) : p \in Paths \ {""}}
    /\ pending = NoPending
    /\ term = NoTerm
    /\ edits = 0
    /\ trip = NoTrip

\* SessionPanel.handleAddSession
AddAdd ==
    /\ Click
    /\ store.created < MaxSessions
    /\ AfterDispatch(handleAddSession(store, <<"n">>), pending.ipc)
    /\ trip' = AddObserved(store)
    /\ UNCHANGED <<mountSaw, chat>>



\* ApiPanel.handleProviderChange (login mode)
AddSetProvider ==
    \E p \in SpecProviders \ {store.api.provider} :
        /\ Click
        /\ ~store.api.connected
        /\ AfterDispatch(setProvider(store, p), pending.ipc)
        /\ UNCHANGED <<mountSaw, chat, trip>>


AddNext ==
    \/ AddAdd
    \/ AddSetProvider
    \/ DelConnect
    \/ DelSwitch
    \/ DelSwitchResume
    \/ DelHandle
    \/ DelExistsReply
    \/ DelAttachReply

SpecAdd == AddInit /\ [][AddNext]_vars

\* C13: the step of handleAddSession leaves the new session active, no message
\* and no task in the live view (nextId 1, counter 0), the live connected flag
\* false and no registry entry for the new id; and when a later handleSwitch to
\* the session that was active has ended, the live connected, provider and
\* model are those that session had when the add form was submitted.
C13_AddStartsDisconnected ==
    [][/\ store'.created = store.created + 1 =>
             /\ store'.activeId = store'.created
             /\ RealMessages(store'.chat.messages) = <<>>
             /\ store'.chat.nextId = 1
             /\ store'.task = [tasks |-> <<>>, counter |-> 0]
             /\ ~store'.api.connected
             /\ cliProcesses'[store'.created] = NoPid
             /\ store.activeId # Null =>
                   ConnectionOf(store', store.activeId) = LiveConnection(store)
       /\ trip'.phase = "back" => trip'.live = trip'.snap]_vars

----------------------------------------------------------------------------
(* handleSwitch called with an id that is not in the session list *)

\* handleSwitch(id), id not the id of any session: step 1 runs, switchSession
\* finds nothing, the handler returns at `if (!target) return`
SwitchUnknown ==
    \E id \in StoreIds \ SessionIdsOf(store) :
        /\ store' = handleSwitchSync(store, id)
        /\ trip' = [phase |-> "unknown", id |-> id]
        /\ UNCHANGED <<pending, term, edits, ptyVars>>

SwitchNext ==
    \/ TripNext
    \/ SwitchUnknown

SpecSwitch == Init /\ [][SwitchNext]_vars

\* C14: handleSwitch with an id that is not the id of any session changes
\* nothing: activeId, the stored data of every session, the live chat and
\* tasks, the live connection and connectedSessions are what they were.
C14_UnknownSwitchIsNoOp ==
    [][trip'.phase = "unknown" =>
          /\ store'.activeId = store.activeId
          /\ store'.sessions = store.sessions
          /\ store'.chat = store.chat
          /\ store'.task = store.task
          /\ store'.api = store.api]_vars

----------------------------------------------------------------------------
(* The api slice under arbitrary dispatches. trip holds the last dispatch
   (op, arg) and, once a snapshot has been saved, the session it was saved
   for and the live connection at that moment. *)

\* Keys handed to the per-session reducers ('' is handleDelete's)
ApiIds == {1, 2, EmptyKey}

\* The observer after one more dispatch: the first save starts observing its
\* session, a later save for that session starts over, a remove for it ends
\* the observation
ApiObserved(op, s) ==
    LET seen == IF op = "save" /\ (trip.phase = "idle" \/ trip.s = s)
                THEN [phase |-> "saved", s |-> s, snap |-> LiveConnection(store)]
                ELSE IF trip.phase = "idle" \/ (op = "remove" /\ trip.s = s)
                THEN NoTrip
                ELSE [phase |-> IF op = "restore" /\ trip.s = s THEN "restored"
                                ELSE "saved",
                      s |-> trip.s, snap |-> trip.snap]
    IN [x \in DOMAIN seen \cup {"op", "arg"} |->
           IF x = "op" THEN op ELSE IF x = "arg" THEN s ELSE seen[x]]

ApiDispatch(st, op, s) ==
    /\ store' = st
    /\ trip' = ApiObserved(op, s)
    /\ UNCHANGED <<pending, term, edits, ptyVars>>

SliceSetProvider == \E p \in SpecProviders : ApiDispatch(setProvider(store, p), "set", Null)

SliceSetModel ==
    \E i \in 1..Len(MODELS(store.api.provider)) :
        ApiDispatch(setModel(store, MODELS(store.api.provider)[i]), "set", Null)

SliceSetConnected ==
    \/ \E b \in BOOLEAN : ApiDispatch(setConnected(store, b), "set", Null)
    \/ ApiDispatch(disconnect(store), "set", Null)

SliceSave == \E s \in ApiIds \ {EmptyKey} : ApiDispatch(saveSessionConnected(store, s), "save", s)

SliceRestore == \E s \in ApiIds : ApiDispatch(restoreSessionConnected(store, s), "restore", s)

SliceRemove ==
    \E s \in ApiIds \ {EmptyKey} : ApiDispatch(removeSessionConnected(store, s), "remove", s)

SliceNext ==
    \/ SliceSetProvider
    \/ SliceSetModel
    \/ SliceSetConnected
    \/ SliceSave
    \/ SliceRestore
    \/ SliceRemove

SpecApi == Init /\ [][SliceNext]_vars

\* C17: restoreSessionConnected(s) with a snapshot stored for s sets the live
\* connected, provider and model to the snapshot's; with none it sets connected
\* to false and leaves provider and model; apiKeys and connectedSessions are
\* unchanged either way.
C17_RestoreFromSnapshot ==
    [][\A s \in ApiIds :
          (trip'.op = "restore" /\ trip'.arg = s) =>
             LET cs == store.api.connectedSessions IN
             /\ IF s \in DOMAIN cs
                THEN LiveConnection(store') = cs[s]
                ELSE /\ ~store'.api.connected
                     /\ store'.api.provider = store.api.provider
                     /\ store'.api.model = store.api.model
             /\ store'.api.apiKeys = store.api.apiKeys
             /\ store'.api.connectedSessions = cs]_vars

\* Session 1 was restored from its connected claude-code snapshot while
\* session 2 holds a disconnected anthropic one.
C17_Witness ==
    /\ "op" \in DOMAIN trip
    /\ trip.op = "restore" /\ trip.arg = 1
    /\ DOMAIN store.api.connectedSessions = {1, 2}
    /\ store.api.connectedSessions[1] =
           [connected |-> TRUE, provider |-> "claude-code", model |-> ""]
    /\ store.api.connectedSessions[2].provider = "anthropic"
    /\ LiveConnection(store) = store.api.connectedSessions[1]

\* C18: when restoreSessionConnected(s) follows saveSessionConnected(s), with
\* dispatches of setProvider, setModel, setConnected, disconnect and saves,
\* restores and removes for other sessions in between, the live connected,
\* provider and model are those of the moment s was saved.
C18_SaveThenRestore ==
    trip.phase = "restored" => LiveConnection(store) = trip.snap

\* Session 1 was saved connected on claude-code; the connection was dropped,
\* the provider changed and session 2 saved; session 1 was restored.
C18_Witness ==
    /\ trip.phase = "restored" /\ trip.s = 1
    /\ trip.snap.connected /\ trip.snap.provider = "claude-code"
    /\ store.ls.api.present /\ store.ls.api.provider = "claude-code"
    /\ store.ls.api.connected = "true"
    /\ 2 \in DOMAIN store.api.connectedSessions
    /\ ~store.api.connectedSessions[2].connected
    /\ store.api.connectedSessions[2].provider = "anthropic"

----------------------------------------------------------------------------
(* connectedSessions while no session is ever connected: SpecTrip has no
   connect operation and starts disconnected, so the live connected flag is
   false whenever a session is backgrounded. *)

\* C19: connectedSessions has an entry for a session only if that session was
\* backgrounded, at an earlier switch away from it or addSession, while the
\* live connected flag was true. No session of SpecTrip is: the claim allows
\* no entry there.
C19_EntryOnlyIfConnected == DOMAIN store.api.connectedSessions = {}

----------------------------------------------------------------------------
(* chat:send. A call runs to its await of the provider stream, then once per
   stream event, then to its return when the stream completes or throws; calls
   may overlap. chat.sent lists what the calls sent to the renderer and what
   they returned, in order; the turn of a message and the turn and session of
   a history entry are the observer's tags, the channels and the history
   carry none. *)

MaxSent == 6         \* messages sent and results returned in one run

Streaming == {t \in 1..Len(chat.turns) : chat.turns[t].pc = "streaming"}

\* Room in chat.sent for n more messages and the end and result of every
\* call under way
Room(n) == Len(chat.sent) + n + 2 * Cardinality(Streaming) <= MaxSent

\* api:setConfig for a CLI provider, or with a key the provider accepts
\* ("gemini" is left to "openai": chat:send treats the two alike, StreamEmits)
ConfigSet ==
    /\ \E p \in {"anthropic", "openai", "claude-code"} :
          chat' = [chat EXCEPT !.provider = p,
                               !.model = IF p = "claude-code" THEN "" ELSE MODELS(p)[1],
                               !.apiKey = IF p = "claude-code" THEN "" ELSE "k"]
    /\ UNCHANGED <<cliProcesses, procs, ipcReply, mountSaw, rendererVars>>

\* chat:send up to the await of the stream: the user turn enters the history,
\* the switch picks the stream function
ChatSend ==
    /\ Room(2)
    /\ chat' = [chat EXCEPT
          !.history = Append(@, [role |-> "user", content |-> "q",
                                 turn |-> Len(chat.turns) + 1,
                                 session |-> store.activeId]),
          !.turns = Append(@, [pc |-> "streaming", provider |-> chat.provider,
                               session |-> store.activeId,
                               fullResponse |-> "", ok |-> FALSE, error |-> ""])]
    /\ UNCHANGED <<cliProcesses, procs, ipcReply, mountSaw, rendererVars>>

\* streamAnthropic, the default of the switch, sends every text delta;
\* streamOpenAI and streamGemini send the non-empty ones
StreamEmits(provider, text) == provider \notin {"openai", "gemini"} \/ text # ""

\* One text event of the provider stream
ChatChunk ==
    \E t \in Streaming, text \in {"a", ""} :
        /\ Room(1)
        /\ chat' = IF StreamEmits(chat.turns[t].provider, text)
                   THEN [chat EXCEPT
                           !.turns[t].fullResponse = @ \o text,
                           !.sent = Append(@, [kind |-> "chunk", turn |-> t,
                                               text |-> text])]
                   ELSE chat
        /\ UNCHANGED <<cliProcesses, procs, ipcReply, mountSaw, rendererVars>>

\* The stream completes: the rest of the try block
ChatStreamDone ==
    \E t \in Streaming :
        /\ chat' = [chat EXCEPT
              !.sent = @ \o <<[kind |-> "end", turn |-> t, text |-> ""],
                              [kind |-> "result", turn |-> t, text |-> ""]>>,
              !.history = Append(@, [role |-> "assistant",
                                     content |-> chat.turns[t].fullResponse,
                                     turn |-> t,
                                     session |-> chat.turns[t].session]),
              !.turns[t].pc = "returned",
              !.turns[t].ok = TRUE]
        /\ UNCHANGED <<cliProcesses, procs, ipcReply, mountSaw, rendererVars>>

\* The error message of the catch block
ChatError(status) ==
    IF status = 401 THEN "invalid-key"
    ELSE IF status = 429 THEN "rate-limit"
    ELSE "err.message"

\* A catch block that sends nothing
FailWithoutEnd ==
    \E t \in Streaming, status \in {401, 429, 500} :
        /\ chat' = [chat EXCEPT
              !.sent = Append(@, [kind |-> "result", turn |-> t, text |-> ""]),
              !.turns[t].pc = "returned",
              !.turns[t].error = ChatError(status)]
        /\ UNCHANGED <<cliProcesses, procs, ipcReply, mountSaw, rendererVars>>

\* A catch block that keeps the partial response as an assistant turn
FailKeepsPartial ==
    \E t \in Streaming, status \in {401, 429, 500} :
        /\ chat' = [chat EXCEPT
              !.sent = @ \o <<[kind |-> "end", turn |-> t, text |-> ""],
                              [kind |-> "result", turn |-> t, text |-> ""]>>,
              !.history = Append(@, [role |-> "assistant",
                                     content |-> chat.turns[t].fullResponse,
                                     turn |-> t,
                                     session |-> chat.turns[t].session]),
              !.turns[t].pc = "returned",
              !.turns[t].error = ChatError(status)]
        /\ UNCHANGED <<cliProcesses, procs, ipcReply, mountSaw, rendererVars>>

\* The stream, or the call that opens it, throws: the catch block
ChatStreamFail ==
    \E t \in Streaming, status \in {401, 429, 500} :
        /\ chat' = [chat EXCEPT
              !.sent = @ \o <<[kind |-> "end", turn |-> t, text |-> ""],
                              [kind |-> "result", turn |-> t, text |-> ""]>>,
              !.turns[t].pc = "returned",
              !.turns[t].error = ChatError(status)]
        /\ UNCHANGED <<cliProcesses, procs, ipcReply, mountSaw, rendererVars>>

ChatNext ==
    \/ ConfigSet
    \/ ChatSend
    \/ ChatChunk
    \/ ChatStreamDone
    \/ ChatStreamFail

SpecChat == Init /\ [][ChatNext]_vars

\* Positions of chat.sent holding a message of the given kind of turn t
SentOf(t, kind) ==
    {i \in 1..Len(chat.sent) : chat.sent[i].turn = t /\ chat.sent[i].kind = kind}

\* C20: every chat:send call sends exactly one end marker, after all of its
\* chunks and before its result is returned, whether its stream completes or
\* throws, before the first chunk or after some; a call still streaming has
\* sent none; what was sent is never taken back.
C20_OneEndMarker ==
    /\ [](\A t \in 1..Len(chat.turns) :
            /\ Cardinality(SentOf(t, "end")) =
                  (IF chat.turns[t].pc = "returned" THEN 1 ELSE 0)
            /\ Cardinality(SentOf(t, "result")) = Cardinality(SentOf(t, "end"))
            /\ \A e \in SentOf(t, "end") :
                  /\ \A c \in SentOf(t, "chunk") : c < e
                  /\ \A r \in SentOf(t, "result") : e < r)
    /\ [][Len(chat.sent') >= Len(chat.sent)
          /\ SubSeq(chat.sent', 1, Len(chat.sent)) = chat.sent]_vars

\* Two overlapping calls have returned: the first threw after one chunk, the
\* second sent a chunk after the end marker of the first and completed.
C20_Witness ==
    /\ Len(chat.turns) = 2
    /\ chat.turns[1].pc = "returned" /\ ~chat.turns[1].ok
    /\ chat.turns[2].pc = "returned" /\ chat.turns[2].ok
    /\ Cardinality(SentOf(1, "chunk")) = 1
    /\ \E c \in SentOf(2, "chunk"), e \in SentOf(1, "end"), r \in SentOf(1, "result") :
          e < c /\ r < c
    /\ chat.history[2].role = "user"

\* Positions of chat.history holding an entry of the given role of turn t
HistoryOf(t, role) ==
    {i \in 1..Len(chat.history) :
        chat.history[i].turn = t /\ chat.history[i].role = role}

\* The texts of the chunks sent for turn t among the first n messages, joined
RECURSIVE ChunksJoined(_, _)
ChunksJoined(t, n) ==
    IF n = 0 THEN ""
    ELSE IF chat.sent[n].turn = t /\ chat.sent[n].kind = "chunk"
    THEN ChunksJoined(t, n - 1) \o chat.sent[n].text
    ELSE ChunksJoined(t, n - 1)

\* C21: the user turn of a call is in the history from the moment the call
\* awaits its provider stream; a call that returned ok has exactly one
\* assistant entry, after its user entry, whose content is the concatenation
\* of the chunks sent for it; a call that failed, or still streams, has none.
C21_HistoryOfTurn ==
    \A t \in 1..Len(chat.turns) :
        /\ Cardinality(HistoryOf(t, "user")) = 1
        /\ Cardinality(HistoryOf(t, "assistant")) =
              (IF chat.turns[t].pc = "returned" /\ chat.turns[t].ok THEN 1 ELSE 0)
        /\ \A a \in HistoryOf(t, "assistant") :
              /\ chat.history[a].content = ChunksJoined(t, Len(chat.sent))
              /\ \A u \in HistoryOf(t, "user") : u < a

\* Two overlapping calls have returned, each after one chunk "a": the first
\* completed, the second threw; the history holds both user turns and the
\* assistant turn "a" of the first.
C21_Witness ==
    /\ Len(chat.turns) = 2
    /\ chat.turns[1].pc = "returned" /\ chat.turns[1].ok
    /\ chat.turns[2].pc = "returned" /\ ~chat.turns[2].ok
    /\ chat.turns[2].fullResponse = "a"
    /\ Len(chat.history) = 3
    /\ chat.history[2].role = "user"
    /\ chat.history[3].role = "assistant" /\ chat.history[3].turn = 1
    /\ chat.history[3].content = "a"

----------------------------------------------------------------------------
(* api:setConfig under arbitrary callers. A call for an API provider awaits
   its probe; calls may overlap and their probes answer in any order. *)

MaxProbes == 3       \* api:setConfig calls in one run

ApiConfig(c) == [provider |-> c.provider, model |-> c.model, apiKey |-> c.apiKey]

\* The configs handed to api:setConfig
Configs ==
    {[provider |-> p, model |-> IF isCliProvider(p) THEN "" ELSE MODELS(p)[1],
      apiKey |-> k] : p \in {"anthropic", "openai", "claude-code"}, k \in {"k1", "k2"}}

\* if (provider === 'claude-code' || provider === 'codex')
SkipsValidation(p) == p \in {"claude-code", "codex"}

\* api:setConfig up to its return for a CLI provider, to the await of its
\* probe for the others
SetConfigCall ==
    \E c \in Configs :
        /\ Len(chat.probes) < MaxProbes
        /\ chat' = IF SkipsValidation(c.provider)
                   THEN [chat EXCEPT
                           !.provider = c.provider, !.model = c.model, !.apiKey = "",
                           !.probes = Append(@, [cfg |-> c, pc |-> "returned",
                                                 probed |-> FALSE, ok |-> TRUE,
                                                 error |-> ""])]
                   ELSE [chat EXCEPT
                           !.probes = Append(@, [cfg |-> c, pc |-> "probing",
                                                 probed |-> FALSE, ok |-> FALSE,
                                                 error |-> ""])]
        /\ UNCHANGED <<cliProcesses, procs, ipcReply, mountSaw, rendererVars>>

\* A catch block that makes the rejected config the active one
FailStillActivates(i, ok, err) ==
    [chat EXCEPT
       !.provider = chat.probes[i].cfg.provider,
       !.model = chat.probes[i].cfg.model,
       !.apiKey = chat.probes[i].cfg.apiKey,
       !.probes[i] = [@ EXCEPT !.pc = "returned", !.probed = TRUE, !.ok = ok,
                               !.error = IF ok THEN "" ELSE err]]

\* The rest of api:setConfig once the probe of call i has answered
SetConfigDone(i, ok, err) ==
    IF ok
    THEN [chat EXCEPT
            !.provider = chat.probes[i].cfg.provider,
            !.model = chat.probes[i].cfg.model,
            !.apiKey = chat.probes[i].cfg.apiKey,
            !.probes[i] = [@ EXCEPT !.pc = "returned", !.probed = TRUE, !.ok = TRUE]]
    ELSE [chat EXCEPT
            !.probes[i] = [@ EXCEPT !.pc = "returned", !.probed = TRUE,
                                    !.error = err]]

\* The probe of a call answers or throws (401 or a message naming the API
\* key; anything else)
SetConfigReturn ==
    \E i \in 1..Len(chat.probes), ok \in BOOLEAN, err \in {"invalid-key", "err.message"} :
        /\ chat.probes[i].pc = "probing"
        /\ chat' = SetConfigDone(i, ok, err)
        /\ UNCHANGED <<cliProcesses, procs, ipcReply, mountSaw, rendererVars>>

ConfigNext ==
    \/ SetConfigCall
    \/ SetConfigReturn

SpecConfig == Init /\ [][ConfigNext]_vars

\* Call i returns in this step
Returns(i) ==
    /\ i <= Len(chat.probes')
    /\ chat'.probes[i].pc = "returned"
    /\ i > Len(chat.probes) \/ chat.probes[i].pc = "probing"

\* C22, as stated: a call whose probe fails returns ok:false with an error and
\* leaves the active config as it was, and whenever a call replaces the active
\* config its probe has succeeded, overlapping calls included.
C22_ReplacedOnlyAfterProbe ==
    [][\A i \in 1..MaxProbes :
          Returns(i) =>
             /\ ~chat'.probes[i].ok =>
                   chat'.probes[i].error # "" /\ ApiConfig(chat') = ApiConfig(chat)
             /\ ApiConfig(chat') # ApiConfig(chat) =>
                   chat'.probes[i].probed /\ chat'.probes[i].ok]_vars

\* C22, amended: a call for an API provider leaves the active config alone
\* until its probe answers; on failure it returns ok:false with an error and
\* the config stays as it is, on success the config becomes the call's; a
\* call for a CLI provider makes no probe and sets the active config at once
\* to its provider and model with an empty key.
C22_ReplacedAfterProbeOrCli ==
    [][\A i \in 1..MaxProbes :
          /\ (Len(chat.probes') = i /\ Len(chat.probes) = i - 1
              /\ chat'.probes[i].pc = "probing") =>
                ApiConfig(chat') = ApiConfig(chat)
          /\ Returns(i) =>
                LET call == chat'.probes[i] IN
                IF ~call.ok
                THEN call.probed /\ call.error # "" /\ ApiConfig(chat') = ApiConfig(chat)
                ELSE IF call.probed
                THEN ApiConfig(chat') = call.cfg
                ELSE /\ isCliProvider(call.cfg.provider)
                     /\ ApiConfig(chat') = [call.cfg EXCEPT !.apiKey = ""]]_vars

\* Two calls overlapped: openai with k2 was made active by the second call,
\* then the probe of the first, anthropic with k1, failed; a third call set
\* claude-code without a probe.
C22_Witness ==
    /\ Len(chat.probes) = 3
    /\ chat.probes[1].cfg.provider = "anthropic" /\ chat.probes[1].cfg.apiKey = "k1"
    /\ chat.probes[1].probed /\ ~chat.probes[1].ok
    /\ chat.probes[1].error = "invalid-key"
    /\ chat.probes[2].cfg.provider = "openai" /\ chat.probes[2].cfg.apiKey = "k2"
    /\ chat.probes[2].probed /\ chat.probes[2].ok
    /\ chat.probes[3].cfg.provider = "claude-code" /\ ~chat.probes[3].probed
    /\ chat.provider = "claude-code" /\ chat.apiKey = ""

----------------------------------------------------------------------------
(* Chat turns while sessions are added and switched: chat:send is called from
   the session that is active, conversationHistory is the one array of the
   main process. *)

\* No session has a directory here: handleSwitch never awaits.
TalkNext ==
    \/ UserAddSession
    \/ UserSwitch
    \/ ChatSend
    \/ ChatChunk
    \/ ChatStreamDone
    \/ ChatStreamFail

SpecTalk == Init /\ [][TalkNext]_vars

\* C23: the history a chat:send call hands to the provider holds only turns
\* made in the session the call is made from, so that nothing said in another
\* session can change it.
C23_HistoryOfOneSession ==
    [][Len(chat'.turns) > Len(chat.turns) =>
          \A i \in 1..Len(chat'.history) :
              chat'.history[i].session = store.activeId]_vars

----------------------------------------------------------------------------
(* The task counter of a session across switches *)

\* The task counter of session id in store st: the live one while the session
\* is active, the stored one while it is in the background
TaskCounterOf(st, id) ==
    IF id = st.activeId THEN st.task.counter
    ELSE st.sessions[FindIndex(st.sessions, id)].taskCounter

\* C24: the task counter of a session never decreases, whatever is added,
\* switched, deleted or restarted, so that no task id is handed out twice
\* within a session.
C24_TaskCounterMonotonic ==
    [][\A id \in SessionIdsOf(store) \cap SessionIdsOf(store') :
          TaskCounterOf(store', id) >= TaskCounterOf(store, id)]_vars

----------------------------------------------------------------------------
(* Both persisted slices under arbitrary dispatches: what localStorage holds
   against what the store holds. *)

\* One dispatch of an api slice reducer
StoreApi ==
    \/ \E p \in SpecProviders : Dispatch(setProvider(store, p))
    \/ \E i \in 1..Min(2, Len(MODELS(store.api.provider))) :
          Dispatch(setModel(store, MODELS(store.api.provider)[i]))
    \/ Dispatch(setApiKey(store, "anthropic", "k"))
    \/ \E b \in BOOLEAN : Dispatch(setConnected(store, b))
    \/ Dispatch(disconnect(store))
    \/ Dispatch(saveSessionConnected(store, 1))
    \/ Dispatch(restoreSessionConnected(store, 1))
    \/ Dispatch(removeSessionConnected(store, 1))

PersistNext == StoreNext \/ StoreApi

SpecPersist == Init /\ [][PersistNext]_vars

\* What is left of the api slice after a reload
SurvivesReload(api) ==
    [api EXCEPT !.connected = IF isCliProvider(api.provider) THEN FALSE ELSE @,
                !.connectedSessions = EmptyFn]

\* The session blob is the session slice, and loads back as it
SessionBlobIsState ==
    /\ store.ls.sessions.present => store.ls.sessions = sessionBlob(store)
    /\ sessionLoadState(store.ls.sessions) =
          [sessions |-> store.sessions, activeId |-> store.activeId]

----------------------------------------------------------------------------
(* Renaming, among arbitrary dispatches to the session slice. trip holds the
   last rename asked for (seq flips when the same one is asked twice). *)

\* A handleRename that hands the edited name over as typed
RenameUntrimmed(st, id, editName) == renameSession(st, id, editName)

\* SessionPanel.handleRename
handleRename(st, id, editName) ==
    LET trimmed == Trim(editName) IN
    IF trimmed # <<>> THEN renameSession(st, id, trimmed) ELSE st

\* The inline editor is committed (Enter or blur)
UserRename ==
    \E id \in StoreIds, editName \in NameInputs :
        /\ store' = handleRename(store, id, editName)
        /\ trip' = [phase |-> "rename", id |-> id, editName |-> editName,
                    seq |-> IF trip.phase = "rename" THEN ~trip.seq ELSE FALSE]
        /\ UNCHANGED <<pending, term, edits, ptyVars>>

RenameNext == StoreNext \/ UserRename

SpecRename == Init /\ [][RenameNext]_vars

\* The Redux state of a store, without the localStorage blobs
Redux(st) == [x \in DOMAIN st \ {"ls"} |-> st[x]]

\* C26: a rename with a name that is empty after trimming, or with an id that
\* is not a session, leaves every session's name (and the rest of the store)
\* unchanged; any other rename makes the trimmed name the name of exactly
\* the named session and changes nothing else in the store.
C26_RenameTrimmedOrNothing ==
    [][(trip' # trip /\ trip'.phase = "rename") =>
          LET name == Trim(trip'.editName)
              i == FindIndex(store.sessions, trip'.id)
          IN IF name = <<>> \/ i = 0
             THEN Redux(store') = Redux(store)
             ELSE Redux(store') = Redux([store EXCEPT !.sessions[i].name = name])]_vars

\* Of two sessions the second, not the active one, has just been renamed
\* with " n " typed: it is called "n", in the store and in the blob, and the
\* first keeps the name "r".
C26_Witness ==
    /\ trip.phase = "rename" /\ trip.id = 2 /\ trip.editName = <<" ", "n", " ">>
    /\ Len(store.sessions) = 2
    /\ store.sessions[2].id = 2 /\ store.sessions[2].name = <<"n">>
    /\ store.sessions[1].name = <<"r">>
    /\ store.activeId = 1
    /\ store.ls.sessions.sessions[2].name = <<"n">>

----------------------------------------------------------------------------
\* The add form submitted between chat, tasks, connections and switches

\* SessionPanel: the add form is submitted; trip keeps what was typed
UserSubmit ==
    \E nameInput \in NameInputs :
        /\ Trim(nameInput) # <<>> => store.created < MaxSessions
        /\ store' = handleAddSession(store, nameInput)
        /\ trip' = [phase |-> "add", nameInput |-> nameInput,
                    seq |-> IF trip.phase = "add" THEN ~trip.seq ELSE FALSE]
        /\ UNCHANGED <<pending, term, edits, ptyVars>>

\* No session has a directory here: handleSwitch never awaits.
SubmitNext ==
    \/ UserSubmit
    \/ UserSwitch
    \/ ChatAdd
    \/ TaskAdd
    \/ ApiSetProvider
    \/ ApiConnect

SpecSubmit == Init /\ [][SubmitNext]_vars

\* C27: a submission of the add form whose name is empty after trimming
\* leaves the whole renderer state as it was: sessions, activeId, every stored
\* snapshot, the live chat, tasks and files, the connection state, the blobs
\* of localStorage, the switches in flight and the terminals.  A submission
\* with a name (the other case of the same handler) adds one session.
C27_BlankAddChangesNothing ==
    [][(trip' # trip /\ trip'.phase = "add") =>
         IF Trim(trip'.nameInput) = <<>>
         THEN store' = store /\ UNCHANGED <<pending, term, edits, ptyVars>>
         ELSE Len(store'.sessions) = Len(store.sessions) + 1]_vars

\* A blank name has just been submitted while a session with a message, a
\* task and a connection is in front and another one is stored.
C27_Witness ==
    /\ trip.phase = "add" /\ trip.nameInput = <<" ">>
    /\ Len(store.sessions) = 2
    /\ store.activeId = 1
    /\ store.chat.messages # <<>>
    /\ store.task.tasks # <<>>
    /\ store.api.connected

----------------------------------------------------------------------------
(* cli:send and cli:resize: the fire-and-forget channels of the registry *)

MaxWrites == 2       \* writes one process receives

\* ipcMain.on('cli:send'): throws is whether proc.write raises.  Nothing
\* catches it in the listener: the error leaves it and reaches the handler of
\* 'uncaughtException'.
CliSend(sid, data, throws) ==
    /\ IF HasEntry(sid)
       THEN IF throws
            THEN /\ ipcReply' = [Called("send", sid) EXCEPT !.uncaught = TRUE]
                 /\ UNCHANGED procs
            ELSE /\ Len(procs[cliProcesses[sid]].input) < MaxWrites
                 /\ procs' = [procs EXCEPT
                                ![cliProcesses[sid]].input = Append(@, data)]
                 /\ ipcReply' = Called("send", sid)
       ELSE /\ ipcReply' = Called("send", sid)
            /\ UNCHANGED procs
    /\ UNCHANGED cliProcesses

\* ipcMain.on('cli:resize'): throws is whether proc.resize raises; the
\* listener catches and ignores it.
CliResize(sid, cols, rows, throws) ==
    /\ IF HasEntry(sid) /\ ~throws
       THEN procs' = [procs EXCEPT ![cliProcesses[sid]].size = <<cols, rows>>]
       ELSE UNCHANGED procs
    /\ ipcReply' = Called("resize", sid)
    /\ UNCHANGED cliProcesses

PtySend ==
    \E sid \in PtySessionIds, throws \in BOOLEAN :
        CliSend(sid, "a", throws) /\ UNCHANGED <<mountSaw, chat, rendererVars>>

PtyResize ==
    \E sid \in PtySessionIds, throws \in BOOLEAN :
        CliResize(sid, 120, 30, throws) /\ UNCHANGED <<mountSaw, chat, rendererVars>>

\* cli:connect for a CLI provider, pty.spawn succeeding
WriteConnect ==
    \E sid \in PtySessionIds :
        CliConnect(sid, "claude-code", TRUE) /\ UNCHANGED <<mountSaw, chat, rendererVars>>

WriteNext ==
    \/ WriteConnect
    \/ PtyDisconnect
    \/ PtyExit
    \/ PtySend
    \/ PtyResize

SpecWrite == PtyInit /\ [][WriteNext]_vars

\* The processes as they are but for the input and the size of process pid
ButInputAndSize(ps, pid) ==
    [q \in 1..Len(ps) |->
        IF q = pid THEN [ps[q] EXCEPT !.input = <<>>, !.size = <<>>] ELSE ps[q]]

\* C28: a cli:send or cli:resize for a session without an entry changes neither
\* the registry nor any process; with an entry it changes at most the input or
\* the size of the process of that entry; and in every case the registry is
\* as it was and no error has left the handler.
C28_WriteResizeBestEffort ==
    [][(ipcReply'.seq # ipcReply.seq /\ ipcReply'.op \in {"send", "resize"}) =>
         /\ cliProcesses' = cliProcesses
         /\ ~ipcReply'.uncaught
         /\ IF HasEntry(ipcReply'.sid)
            THEN ButInputAndSize(procs', cliProcesses[ipcReply'.sid])
                   = ButInputAndSize(procs, cliProcesses[ipcReply'.sid])
            ELSE procs' = procs]_vars

----------------------------------------------------------------------------
(* Processes that end by themselves *)

\* proc.onExit of a process nobody killed; trip keeps which one it was
ExitSelf ==
    \E pid \in 1..Len(procs) :
        /\ Running(pid)
        /\ ProcExit(pid)
        /\ trip' = [phase |-> "exit", pid |-> pid]
        /\ UNCHANGED <<mountSaw, chat, store, pending, term, edits>>

ExitExists ==
    \E sid \in PtySessionIds : CliExists(sid) /\ UNCHANGED <<mountSaw, chat, rendererVars>>

ExitGet ==
    \E sid \in PtySessionIds :
        CliGetScrollback(sid) /\ UNCHANGED <<mountSaw, chat, rendererVars>>

ExitNext ==
    \/ WriteConnect
    \/ PtyDisconnect
    \/ PtyExit
    \/ ExitSelf
    \/ ExitExists
    \/ ExitGet

SpecExit == PtyInit /\ [][ExitNext]_vars

----------------------------------------------------------------------------
(* Output events while sessions come to the front and leave it *)

\* The cli:output part of what a process has sent
OutputOf(pid) ==
    LET IsOutput(e) == e.channel = "cli:output" IN SelectSeq(procs[pid].sent, IsOutput)

\* C30: what a process has sent as output is, character for character and in
\* the same order, what it has emitted, all of it, each piece with the session
\* id the process was spawned for; this whichever session is in front.
C30_OutputTaggedInOrder ==
    \A pid \in 1..Len(procs) :
        /\ Len(OutputOf(pid)) = Len(procs[pid].emitted)
        /\ \A i \in 1..Len(OutputOf(pid)) :
              /\ OutputOf(pid)[i].sid = procs[pid].sid
              /\ OutputOf(pid)[i].data = procs[pid].emitted[i]

\* The process of session 1 has just emitted its last characters while session
\* 2 was in front, and the process of session 2 has emitted too: the window
\* has been sent all of it, tagged 1 and 2.
C30_Witness ==
    /\ trip.phase = "data" /\ trip.pid = 1 /\ trip.front = 2
    /\ Len(procs) = 2
    /\ procs[1].sid = 1 /\ Len(procs[1].emitted) = MaxEmit
    /\ procs[1].sent = CliOutput(1, procs[1].emitted)
    /\ procs[2].sid = 2 /\ procs[2].emitted # <<>>
    /\ procs[2].sent = CliOutput(2, procs[2].emitted)

----------------------------------------------------------------------------
(* Switches whose directory listing fails *)

\* What fs.readDir can answer to handleSwitch: a listing, { ok: false }, or a
\* rejected promise
ListOutcomes == {"ok", "error", "rejected"}

\* The closures a suspended handleSwitch can hold
Handles == [id : PtySessionIds, path : Paths \ {""}]

\* fs.readDir answers the handleSwitch suspended with closure h; trip keeps
\* which one and how
ListResumeOf(h) ==
    \E outcome \in ListOutcomes :
        /\ h \in pending.switches
        /\ store' = handleSwitchResume(store, h, outcome = "ok")
        /\ pending' = [pending EXCEPT !.switches = @ \ {h}]
        /\ trip' = [phase |-> "listed", h |-> h, outcome |-> outcome]
        /\ UNCHANGED <<term, edits, ptyVars>>

ListResume == \E h \in Handles : ListResumeOf(h)

\* The home directory has been listed at startup and two sessions added: both
\* carry its path, session 2 is in front, nothing is connected.
ListInit ==
    /\ MainInit
    /\ store = handleAddSession(
                  handleAddSession(setDirectory(InitialStore, "/p"), <<"n">>), <<"n">>)
    /\ pending = NoPending
    /\ term = NoTerm
    /\ edits = 0
    /\ trip = NoTrip

ListNext ==
    \/ UserSwitch
    \/ ListResume
    \/ ChatAdd
    \/ TaskAdd
    \/ ApiConnect

SpecList == ListInit /\ [][ListNext]_vars

\* The main process answers every fs:readDir call
SpecListLive == SpecList /\ \A h \in Handles : WF_vars(ListResumeOf(h))

\* C31: a switch to another, existing session that has a directory makes it
\* the active one and brings its stored messages (the welcome placeholder for
\* an empty list) and tasks into the live view before the listing is awaited;
\* whatever the listing answers, the handler resumes, and its resumption
\* applies restoreSessionConnected for the target and touches nothing else but,
\* after a listing that succeeded, the directory.
C31_FailedListingStillCompletes ==
    /\ [][\A h \in Handles :
            (h \notin pending.switches /\ h \in pending'.switches) =>
               LET target == store.sessions[FindIndex(store.sessions, h.id)] IN
               /\ store'.activeId = h.id
               /\ store'.chat.messages =
                     (IF target.messages = <<>> THEN <<Welcome>> ELSE target.messages)
               /\ store'.task.tasks = target.tasks]_vars
    /\ [][\A h \in Handles :
            (h \in pending.switches /\ h \notin pending'.switches) =>
            LET cs == store.api.connectedSessions
                id == h.id
            IN /\ store'.activeId = store.activeId
               /\ store'.sessions = store.sessions
               /\ store'.chat = store.chat
               /\ store'.task = store.task
               /\ store'.api.connectedSessions = cs
               /\ store'.api.connected = (id \in DOMAIN cs /\ cs[id].connected)
               /\ id \in DOMAIN cs => /\ store'.api.provider = cs[id].provider
                                      /\ store'.api.model = cs[id].model
               /\ trip'.outcome # "ok" => store'.file = store.file]_vars
    /\ \A h \in Handles :
          (h \in pending.switches) ~> (h \notin pending.switches)

\* The listing of session 1's directory was rejected; the switch to session 1
\* has completed all the same: it is active, its message is in the live view
\* and its connection is restored.
C31_Witness ==
    /\ trip.phase = "listed" /\ trip.outcome = "rejected" /\ trip.h.id = 1
    /\ pending.switches = {}
    /\ store.activeId = 1
    /\ Len(store.sessions) = 2
    /\ \E i \in 1..Len(store.chat.messages) : store.chat.messages[i].id # 0
    /\ store.api.connected
    /\ 1 \in DOMAIN store.api.connectedSessions

----------------------------------------------------------------------------
(* A CLI process ends while its session is connected, and the terminal of the
   session is mounted again *)

RemountNext == AppNext \/ ExitSelf

SpecRemount == AppInit /\ [][RemountNext]_vars

\* C33: once a process of a session has exited (nothing kills a process here,
\* and nobody disconnects or connects), no step spawns a process for that
\* session.
C33_NoRespawnAfterExit ==
    [][\A pid \in 1..Len(procs) :
          procs[pid].status = "exited" =>
             \A q \in (Len(procs) + 1)..Len(procs') : procs'[q].sid # procs[pid].sid]_vars

----------------------------------------------------------------------------
(* ChatPanel: chat turns of API providers while sessions are added and
   switched.  The main process and the provider are the environment here: a
   call under way sends chunks and then returns its result. *)

MaxTurnChunks == 2   \* chunks one turn receives

\* ChatPanel: cliMode
CliMode(st) == isCliProvider(st.api.provider) /\ st.api.connected

\* sendMessage up to its await of chat.send: isStreaming, the user message,
\* the empty assistant message, the two refs
sendMessageSync(st) ==
    LET userId == st.chat.nextId
        assistantId == st.chat.nextId + 1
        st1 == setStreaming(st, TRUE)
        st2 == addMessageWithId(st1, [id |-> userId, type |-> "user", text |-> "q"])
        st3 == addMessageWithId(st2, [id |-> assistantId, type |-> "assistant",
                                      text |-> ""])
    IN [st3 EXCEPT !.refs = [streamText |-> "", streamMsgId |-> assistantId]]

\* sendMessage after the await: the result, then finally
sendMessageResume(st, assistantId, ok) ==
    setStreaming(IF ok THEN st
                 ELSE addMessage(removeEmptyMessage(st, assistantId), "error", "e"),
                 FALSE)

\* The onStreamChunk listener
onStreamChunk(st, chunk) ==
    LET text == st.refs.streamText \o chunk IN
    updateMessageText([st EXCEPT !.refs.streamText = text], st.refs.streamMsgId, text)

\* The send button or Enter, with some text typed, outside CLI mode; the
\* closure keeps the assistant id, session is the session in front
PanelSend ==
    /\ ~CliMode(store)
    /\ ~store.chat.isStreaming
    /\ store.chat.nextId + 1 <= MaxMsgId
    /\ store' = sendMessageSync(store)
    /\ pending' = [pending EXCEPT !.sends = @ \cup
                     {[assistantId |-> store.chat.nextId + 1,
                       session |-> store.activeId, chunks |-> 0]}]
    /\ trip' = NoTrip
    /\ UNCHANGED <<term, edits, ptyVars>>

\* A chunk of the call c arrives
PanelChunk ==
    \E c \in pending.sends :
        /\ c.chunks < MaxTurnChunks
        /\ store' = onStreamChunk(store, "a")
        /\ pending' = [pending EXCEPT !.sends = (@ \ {c}) \cup
                         {[c EXCEPT !.chunks = @ + 1]}]
        /\ trip' = [phase |-> "chunk", session |-> c.session,
                    seq |-> IF trip.phase = "chunk" THEN ~trip.seq ELSE FALSE]
        /\ UNCHANGED <<term, edits, ptyVars>>

\* chat.send of the call c returns, ok or not
PanelResult ==
    \E c \in pending.sends, ok \in BOOLEAN :
        /\ store' = sendMessageResume(store, c.assistantId, ok)
        /\ pending' = [pending EXCEPT !.sends = @ \ {c}]
        /\ trip' = [phase |-> IF ok THEN "done" ELSE "failed", session |-> c.session,
                    seq |-> IF trip.phase \in {"done", "failed"} THEN ~trip.seq
                            ELSE FALSE]
        /\ UNCHANGED <<term, edits, ptyVars>>

StreamNext ==
    \/ UserAddSession
    \/ UserSwitch
    \/ PanelSend
    \/ PanelChunk
    \/ PanelResult

SpecStream == Init /\ [][StreamNext]_vars

\* C34: a chunk or a failure of a turn sent in a session X, arriving while
\* another session is in front, changes neither the live messages nor any
\* stored session.
C34_TurnStaysInItsSession ==
    [][(trip' # trip /\ trip'.phase \in {"chunk", "failed"}
          /\ trip'.session # Null /\ trip'.session # store.activeId) =>
             /\ store'.chat.messages = store.chat.messages
             /\ store'.sessions = store.sessions]_vars

\* C35: at most one sendMessage awaits its result.
C35_OneTurnInFlight == Cardinality(pending.sends) <= 1

----------------------------------------------------------------------------
(* TerminalView: what is written to xterm.  The onOutput listener is
   registered when the effect starts, before cli.exists is asked; the
   scrollback is written when cli.getScrollback answers. *)

\* The onOutput listener of the effect t: term.write(data) when sid === sessionId
onOutput(t, sid, data) ==
    IF t.mounted /\ sid = t.sid THEN [t EXCEPT !.screen = @ \o data] ELSE t

\* A process writes; the cli:output event reaches the listener
TermData ==
    \E pid \in 1..Len(procs), k \in 1..MaxChunk :
        /\ ProcData(pid, k)
        /\ term' = onOutput(term, procs[pid].sid, Chunk(Len(procs[pid].emitted), k))
        /\ UNCHANGED <<mountSaw, chat, store, pending, edits, trip>>

\* The answer of cli.getScrollback: if (sb.ok && sb.data) term.write(sb.data)
TermScrollback ==
    /\ term.mounted /\ term.phase = "reattach"
    /\ CliGetScrollback(term.sid)
    /\ term' = [term EXCEPT !.phase = "attached",
                            !.screen = IF ipcReply'.ok /\ ipcReply'.data # <<>>
                                       THEN @ \o ipcReply'.data ELSE @]
    /\ trip' = [phase |-> "reattached", sid |-> term.sid]
    /\ UNCHANGED <<mountSaw, chat, store, pending, edits>>

ReattachNext ==
    \/ AppSwitch
    \/ AppSwitchResume
    \/ AppTermExists
    \/ TermScrollback
    \/ AppMountConnect
    \/ TermData

SpecReattach == AppInit /\ [][ReattachNext]_vars

\* C36: a terminal that has reattached to the running process of its session
\* shows the end of that process's output, every character once and in order:
\* the scrollback it fetched followed by what was emitted since.
C36_ReattachShowsEachChunkOnce ==
    (/\ term.mounted /\ term.phase = "attached"
     /\ trip.phase = "reattached" /\ trip.sid = term.sid
     /\ HasEntry(term.sid)) =>
        LET emitted == procs[cliProcesses[term.sid]].emitted IN
        /\ Len(term.screen) <= Len(emitted)
        /\ term.screen = SliceTail(emitted, Len(term.screen))

----------------------------------------------------------------------------
(* Stored histories across a restart: sessions and activeId come back from
   localStorage, the chat slice starts from its initial state. *)

RestartNext ==
    \/ UserAddSession
    \/ UserSwitch
    \/ ChatAdd
    \/ Restart

SpecRestart == Init /\ [][RestartNext]_vars

StartsWith(s, p) == Len(p) <= Len(s) /\ SubSeq(s, 1, Len(p)) = p

\* C37: the stored messages of a session are only ever replaced by a live
\* view that was restored from them and added to since, so what was stored
\* stays the beginning of what is stored.
C37_StoredHistoryKept ==
    [][\A id \in SessionIdsOf(store) \cap SessionIdsOf(store') :
          StartsWith(RealMessages(store'.sessions[FindIndex(store'.sessions, id)].messages),
                     RealMessages(StoredOf(id).messages))]_vars

----------------------------------------------------------------------------
(* The provider the renderer shows as connected against apiConfig of the main
   process, which chat:send reads. *)

\* ApiPanel.handleSubmit for an API provider, run to its end: the key is
\* stored, config.set is awaited (api:setConfig makes the config the active
\* one when its probe succeeds), then setConnected(true)
PanelSubmit ==
    \E ok \in BOOLEAN :
        /\ ~store.api.connected
        /\ ~isCliProvider(store.api.provider)
        /\ edits < MaxEdits
        /\ edits' = edits + 1
        /\ chat' = IF ok THEN [chat EXCEPT !.provider = store.api.provider,
                                           !.model = store.api.model,
                                           !.apiKey = "k"]
                   ELSE chat
        /\ store' = LET st == setApiKey(store, store.api.provider, "k") IN
                    IF ok THEN setConnected(st, TRUE) ELSE st
        /\ trip' = NoTrip
        /\ UNCHANGED <<pending, term, cliProcesses, procs, ipcReply, mountSaw>>

\* ApiPanel.handleProviderChange between two API providers
PanelProvider ==
    \E p \in {"anthropic", "openai"} :
        /\ ~store.api.connected
        /\ Edit(setProvider(store, p))

ActiveNext ==
    \/ UserAddSession
    \/ UserSwitch
    \/ PanelProvider
    \/ PanelSubmit
    \/ ApiDisconnect

SpecActive == Init /\ [][ActiveNext]_vars

\* C38: while the live state is connected to an API provider, apiConfig in the
\* main process names the live provider and model.
C38_ActiveConfigIsLive ==
    (store.api.connected /\ ~isCliProvider(store.api.provider)) =>
        /\ chat.provider = store.api.provider
        /\ chat.model = store.api.model

----------------------------------------------------------------------------
(* Message ids of the live chat view, two sessions existing: clicks on
   sessions, deletes split at their await, chat turns that succeed or fail.
   (A chunk changes the text of a message only.) *)

IdsInit ==
    /\ MainInit
    /\ store = handleAddSession(handleAddSession(InitialStore, <<"n">>), <<"n">>)
    /\ pending = NoPending
    /\ term = NoTerm
    /\ edits = 0
    /\ trip = NoTrip

IdsNext ==
    \/ UserSwitch
    \/ UserDelete
    \/ DeleteResume
    \/ PanelSend
    \/ PanelResult

SpecIds == IdsInit /\ [][IdsNext]_vars

\* nextId is above every id of the live view
IdsBelowNext ==
    \A i \in 1..Len(store.chat.messages) : store.chat.messages[i].id < store.chat.nextId

\* C39: in the live chat view nextId is greater than the id of every message,
\* and when another session comes to the front (switch, delete) nextId is the
\* greatest id plus one, or 1 with no message.
C39_NextIdAboveAllIds ==
    /\ []IdsBelowNext
    /\ [][(store'.activeId # store.activeId /\ store'.activeId # Null
             /\ store'.created = store.created) =>
               store'.chat.nextId = IF RealMessages(store'.chat.messages) = <<>> THEN 1
                                     ELSE MaxId(store'.chat.messages) + 1]_vars

\* Session 1 was left with the messages 1 and 3 (the placeholder 2 of a failed
\* turn removed) and has come back to the front: nextId is 4
C39_Witness ==
    /\ store.activeId = 1
    /\ Len(RealMessages(store.chat.messages)) = 2
    /\ StoredOf(1).messages = store.chat.messages
    /\ store.chat.nextId = MaxId(store.chat.messages) + 1
    /\ store.chat.nextId = 4

----------------------------------------------------------------------------
\* C40: with no handler and no call in flight, every key of the registry is
\* the id of a session of the list, or the 'default' key while no session is
\* active.
C40_KeysAreSessions ==
    pending = NoPending =>
        \A sid \in PtyKeys :
            HasEntry(sid) =>
                \/ sid \in SessionIdsOf(store)
                \/ sid = Null /\ store.activeId = Null

====
